---------------------------- MODULE Spec2Model ----------------------------
(***************************************************************************)
(* Linear-trail search engines of psve/cryptagraph: the S-box              *)
(* approximation table, the branch-and-bound search (GIFT) and the         *)
(* mask-set collector (PRESENT, PRESENT-MPI).                              *)
(*                                                                         *)
(* Numbers.  Every correlation of a 4-bit S-box is (hits - 8) / 8 and      *)
(* every ELP is a finite sum of products of such squares, so all the       *)
(* doubles of the program are dyadic rationals far inside the 53-bit       *)
(* mantissa: they are modelled exactly as pairs <<m, e>> standing for      *)
(* m * 2^-e, kept in lowest terms.                                         *)
(*                                                                         *)
(* Masks.  A parity mask (uint64_t) is the set of its set bit positions;   *)
(* x | y is the union, x << k adds k to every position.  The cipher state  *)
(* is scaled from 16 S-box slots down to Sboxes slots.                     *)
(***************************************************************************)
EXTENDS Integers, Naturals, Sequences, FiniteSets, TLC

\* ------------------------------------------------------------------ bounds
Sboxes    == 2      \* S-box slots of the scaled state (the ciphers have 16)
Rounds    == 5      \* deepest depth of the branch-and-bound search (main uses 8)
EngineRounds == 3   \* Rounds of the mask-set engines and of the direct accumulation (12)
MaxWeight == 2      \* largest per-round cap on active slots that is tried

\* ------------------------------------------------------- program constants
CIPHER_SBOX_SIZE   == 4
CIPHER_SBOX_VALUES == 16
CIPHER_SIZE        == Sboxes * CIPHER_SBOX_SIZE

\* ----------------------------------------------------------- dyadic values
RECURSIVE Norm(_, _)
Norm(m, e) == IF m = 0 THEN <<0, 0>>
              ELSE IF e > 0 /\ m % 2 = 0 THEN Norm(m \div 2, e - 1)
              ELSE <<m, e>>

RECURSIVE Pow2(_)
Pow2(k) == IF k = 0 THEN 1 ELSE 2 * Pow2(k - 1)

Zero == <<0, 0>>
One  == <<1, 0>>

DMul(a, b) == Norm(a[1] * b[1], a[2] + b[2])

DAdd(a, b) == IF a[2] >= b[2]
              THEN Norm(a[1] + b[1] * Pow2(a[2] - b[2]), a[2])
              ELSE Norm(a[1] * Pow2(b[2] - a[2]) + b[1], b[2])

DAbs(a) == IF a[1] < 0 THEN <<0 - a[1], a[2]>> ELSE a

\* a < b on dyadic values; a gap of 24 binary places or more is decided by
\* the signs alone (every numerator of the model stays far below 2^24)
DLt(a, b) == IF a[2] >= b[2]
             THEN IF a[2] - b[2] >= 24
                  THEN b[1] > 0 \/ (b[1] = 0 /\ a[1] < 0)
                  ELSE a[1] < b[1] * Pow2(a[2] - b[2])
             ELSE IF b[2] - a[2] >= 24
                  THEN a[1] < 0 \/ (a[1] = 0 /\ b[1] > 0)
                  ELSE a[1] * Pow2(b[2] - a[2]) < b[1]

DLeq(a, b) == ~ DLt(b, a)

\* ------------------------------------------------------------------- masks
\* the bits of an S-box parity 0..15
Bits(v) == {j \in 0 .. (CIPHER_SBOX_SIZE - 1) : (v \div Pow2(j)) % 2 = 1}

\* mask << k
Shl(x, k) == {j + k : j \in x}

\* (pin >> (box * 4)) & 0xf, as a number 0..15
ValIn(pin, box) ==
    LET b == box * CIPHER_SBOX_SIZE
    IN  (IF b     \in pin THEN 1 ELSE 0) + (IF b + 1 \in pin THEN 2 ELSE 0)
      + (IF b + 2 \in pin THEN 4 ELSE 0) + (IF b + 3 \in pin THEN 8 ELSE 0)

AllMasks == SUBSET (0 .. (CIPHER_SIZE - 1))

nibble_weight(a) == Cardinality({b \in 0 .. (Sboxes - 1) : ValIn(a, b) # 0})

weight(a) == Cardinality(a)

\* ---------------------------------------------------------------- S-boxes
GIFT_SBOX == <<1, 10, 4, 12, 6, 15, 3, 9, 2, 13, 11, 7, 5, 0, 8, 14>>

RECT_SBOX == <<6, 5, 12, 10, 1, 14, 7, 9, 11, 0, 3, 13, 8, 15, 4, 2>>

SboxNames == {"gift", "rectangle"}

SBOX(name) == IF name = "gift" THEN GIFT_SBOX ELSE RECT_SBOX

\* parity(e): XOR of the bits of e
parity(e) == Cardinality(Bits(e)) % 2

\* a & b on S-box parities
BitAnd(a, b) ==
    LET c == Bits(a) \cap Bits(b)
    IN  (IF 0 \in c THEN 1 ELSE 0) + (IF 1 \in c THEN 2 ELSE 0)
      + (IF 2 \in c THEN 4 ELSE 0) + (IF 3 \in c THEN 8 ELSE 0)

\* ------------------------------------------------------------ linear layer
LayerNames == {"gift", "present"}

\* PERM[i]: the position bit i is sent to.  "gift" is the GIFT table
\* restricted to one group of slots (bit j of slot b goes to bit j of slot
\* (j - b) mod Sboxes; with four slots this is 3b + j mod 4 as in PERM);
\* "present" is the PRESENT table scaled the usual way (i * Sboxes mod
\* (CIPHER_SIZE - 1), the last bit fixed).
PERM(layer) ==
    [i \in 0 .. (CIPHER_SIZE - 1) |->
        IF layer = "gift"
        THEN LET b == i \div CIPHER_SBOX_SIZE
                 j == i % CIPHER_SBOX_SIZE
             IN  CIPHER_SBOX_SIZE * ((j + Sboxes * CIPHER_SBOX_SIZE - b) % Sboxes) + j
        ELSE IF i = CIPHER_SIZE - 1 THEN i
             ELSE (i * Sboxes) % (CIPHER_SIZE - 1)]

\* out |= x & 1 ? PERM[i] : 0, for every bit i of x
permute(layer, x) == {PERM(layer)[i] : i \in x}

\* --------------------------------------------------- approximation table
\* 6e-50 lies strictly between 2^-164 and 2^-163 and no value of the model
\* lies between those two, so v < TINY is v < 2^-TINY_EXP
TINY_EXP == 163
TINY     == <<1, TINY_EXP>>

Hits(S, parin, parout) ==
    Cardinality({input \in 0 .. (CIPHER_SBOX_VALUES - 1) :
        parity(BitAnd(parin, input)) = parity(BitAnd(parout, S[input + 1]))})

\* the correlation of the transposed approximation
CorrSwapped(S, parin, parout) == Norm(2 * Hits(S, parout, parin) - CIPHER_SBOX_VALUES, 4)

\* 2.0 * (hits / CIPHER_SBOX_VALUES) - 1.0
Corr(S, parin, parout) == Norm(2 * Hits(S, parin, parout) - CIPHER_SBOX_VALUES, 4)

Approx(i, o, c) == [input |-> i, output |-> o, weight |-> Cardinality(Bits(o)), corr |-> c]

\* the push_back loops: forward[parin] in order of parout, backward[parout]
\* in order of parin
RECURSIVE RawRow(_, _, _, _)
RawRow(S, n, dir, k) ==
    IF k = 0 THEN << >>
    ELSE Append(RawRow(S, n, dir, k - 1),
                IF dir = "forward" THEN Approx(n, k - 1, Corr(S, n, k - 1))
                                   ELSE Approx(n, k - 1, Corr(S, k - 1, n)))

\* the comparator of vsort: a goes before b iff fabs(b.corr) < fabs(a.corr)
Before(a, b) == DLt(DAbs(b.corr), DAbs(a.corr))

\* std::sort on at most 16 elements is a plain insertion sort: an element
\* moves left past the elements it must go before, and past no other
RECURSIVE InsertSorted(_, _)
InsertSorted(v, a) ==
    IF v = << >> THEN <<a>>
    ELSE IF Before(a, v[Len(v)])
         THEN Append(InsertSorted(SubSeq(v, 1, Len(v) - 1), a), v[Len(v)])
         ELSE Append(v, a)

RECURSIVE vsort(_)
vsort(v) == IF v = << >> THEN << >>
            ELSE InsertSorted(vsort(SubSeq(v, 1, Len(v) - 1)), v[Len(v)])

\* nothing is erased
vremove_none(v) == v

\* erase from the first element with fabs(corr) < TINY to the end
vremove(v) ==
    LET small == {n \in 1 .. Len(v) : DLt(DAbs(v[n].corr), TINY)}
    IN  IF small = {} THEN v
        ELSE SubSeq(v, 1, (CHOOSE n \in small : \A k \in small : n <= k) - 1)

\* a function with a finite domain, every value computed once
Fix(f) == f @@ << >>

approximate_sbox(S) ==
    LET F(n) == vremove(vsort(RawRow(S, n, "forward", CIPHER_SBOX_VALUES)))
        B(n) == vremove(vsort(RawRow(S, n, "backward", CIPHER_SBOX_VALUES)))
    IN  [forward  |-> Fix([n \in 0 .. (CIPHER_SBOX_VALUES - 1) |-> F(n)]),
         backward |-> Fix([n \in 0 .. (CIPHER_SBOX_VALUES - 1) |-> B(n)])]

\* corr = fabs(corr) in place of the square
RECURSIVE AbsRow(_, _)
AbsRow(v, k) ==
    IF k = 0 THEN << >>
    ELSE Append(AbsRow(v, k - 1), [v[k] EXCEPT !.corr = DAbs(@)])

\* corr is left as it is
KeepRow(v, k) == SubSeq(v, 1, k)

RECURSIVE SquareRow(_, _)
SquareRow(v, k) ==
    IF k = 0 THEN << >>
    ELSE Append(SquareRow(v, k - 1), [v[k] EXCEPT !.corr = DMul(@, @)])

make_approximations_elp(approximations) ==
    LET R(n) == SquareRow(approximations[n], Len(approximations[n]))
    IN  Fix([n \in 0 .. (CIPHER_SBOX_VALUES - 1) |-> R(n)])

\* the tables main() builds, once per S-box
LatOf(name) ==
    LET t == approximate_sbox(SBOX(name))
    IN  [forward  |-> make_approximations_elp(t.forward),
         backward |-> make_approximations_elp(t.backward)]

LatTable == ("gift" :> LatOf("gift")) @@ ("rectangle" :> LatOf("rectangle"))

forward_approx(name)  == LatTable[name].forward
backward_approx(name) == LatTable[name].backward

\* ------------------------------------------------------------------------
\* Branch and bound (GIFT/branch-bound-faster, GIFT/branch-bound)
\* ------------------------------------------------------------------------
VARIABLES
    cfg,        \* the build: S-box, linear layer, Weight, variant
    pc,         \* where branch_bound_search stands
    rounds,     \* the depth being searched (the loop variable of the driver)
    bounds,     \* double bounds[Rounds + 1]
    trail,      \* uint64_t trail[Rounds + 1]
    trace,      \* uint64_t trace[Rounds + 1] of the running branch_bound_start
    pinIdx,     \* position of branch_bound_start in its enumeration of pin
    stack       \* the frames of branch_bound_fill, innermost last

bbVars == <<cfg, pc, rounds, bounds, trail, trace, pinIdx, stack>>

\* the mask-set engine
VARIABLES
    mcfg,       \* the program of the run, its S-box, linear layer, alpha, Limit
    mpc,        \* position of the driver: "round", "tasks", "drain", "done"
    round,      \* r of collect_sets / round_num of main
    masks,      \* the mask set read by the round, <<mask, ELP>> entries
    members,    \* collector.members
    fitness,    \* collector.fitness
    tasks,      \* the OpenMP tasks of the round, one per mask of the slice
    out,        \* masks[r] while the collector is drained / flat_buff
    discarded   \* ELPs the collector turned down or evicted in this round

msVars == <<mcfg, mpc, round, masks, members, fitness, tasks, out, discarded>>

\* the state of a run of the direct accumulation (GIFT/enumerate)
VARIABLES
    ecfg,       \* the S-box, the linear layer, hw (argv) and the build
    epc,        \* where run() stands: "fill", "swap", "abort", "done", "off"
    eround,     \* the loop variable round of run()
    pool_cur,   \* the entries <<mask, value>> of pool_cur
    pool_new,   \* pool_new: mask -> value
    pcs         \* the number of entries of pool_cur that were passed to fill

enVars == <<ecfg, epc, eround, pool_cur, pool_new, pcs>>

\* the state of a run of the distributed mask-set engine (PRESENT-MPI/main.cpp)
VARIABLES
    hcfg,       \* world_size, Limit, alpha, the build and the mode of MPI_Send
    node,       \* per rank: where main stands, round_num, collector, flat_buff,
                \* flat_size, masks and the number of receives made in the round
    chan,       \* the messages sent and not yet received
    lastMerge   \* the last receive-and-merge: the array sent and the pairs offered

hpcVars == <<hcfg, node, chan, lastMerge>>

\* the state of approximate_sbox (analysis.cpp) run step by step
VARIABLES
    lsbox,         \* the S-box
    lpc,           \* where approximate_sbox stands
    lparin,        \* parin of the enumeration loop
    lparout,       \* parout of the enumeration loop
    lat_forward,   \* forward_approx
    lat_backward,  \* backward_approx
    ln             \* n of the loop that sorts and prunes the buckets

latVars == <<lsbox, lpc, lparin, lparout, lat_forward, lat_backward, ln>>

\* the state of a run of the cipher functions of RECTANGLE/cipher.cpp
VARIABLES
    rin,        \* the 64-bit value the run starts from (randx() in test_cipher)
    rval,       \* the value the functions applied so far have produced
    rops        \* the functions applied so far, in order

rectVars == <<rin, rval, rops>>

\* the flag of the debug builds of the mask-set engines (mask-search.cpp),
\* one global shared by the tasks of a round
VARIABLES
    DEBUG_FOUND_BACKPROP

dbgVars == <<DEBUG_FOUND_BACKPROP>>

\* the state of a run of permute of GIFT/branch-bound-faster/gift.cpp
VARIABLES
    gx,         \* a 64-bit mask
    gy,         \* another one
    gpc,        \* the call that is made next: "x", "y", "or", then "done"
    gres        \* the values permute has returned so far, in order

permVars == <<gx, gy, gpc, gres>>

vars == <<bbVars, msVars, enVars, hpcVars, latVars, rectVars, dbgVars, permVars>>

\* permute of gift.cpp is not run on its own
PERMIdle == gx = {} /\ gy = {} /\ gpc = "off" /\ gres = << >>

\* the flag as a release build leaves it, and as a debug build starts with it
\* (a global without initialiser)
DBGIdle == DEBUG_FOUND_BACKPROP = FALSE

\* the cipher functions are not part of the run
RECTIdle == rin = {} /\ rval = {} /\ rops = <<"off">>

\* approximate_sbox is not part of the run
LATIdle ==
    /\ lsbox = "none" /\ lpc = "off" /\ lparin = 0 /\ lparout = 0
    /\ lat_forward = << >> /\ lat_backward = << >> /\ ln = 0

\* the distributed engine is not part of the run
HPCIdle ==
    /\ hcfg = [variant |-> "none"]
    /\ node = << >>
    /\ chan = {}
    /\ lastMerge = << >>

\* the direct accumulation is not part of the run
ENIdle ==
    /\ ecfg = [variant |-> "none"]
    /\ epc = "off"
    /\ eround = 0
    /\ pool_cur = << >>
    /\ pool_new = << >>
    /\ pcs = 0

Variants == {"faster", "classic"}

\* branch-bound/search.cpp passes 2 as `remain` whatever Weight is
CLASSIC_REMAIN == 2

Configs == [sbox : SboxNames, layer : LayerNames, weight : 1 .. MaxWeight, variant : Variants]

\* the per-slot table of main(): the records of forward[v], the output moved
\* into slot `box` and sent through the linear layer
RECURSIVE ExpandRow(_, _, _, _)
ExpandRow(v, layer, box, k) ==
    IF k = 0 THEN << >>
    ELSE Append(ExpandRow(v, layer, box, k - 1),
                [v[k] EXCEPT !.output =
                    permute(layer, Shl(Bits(v[k].output), box * CIPHER_SBOX_SIZE))])

expand_lat(approximations, layer) ==
    Fix([box \in 0 .. (Sboxes - 1) |->
        Fix([val \in 0 .. (CIPHER_SBOX_VALUES - 1) |->
            ExpandRow(approximations[val], layer, box, Len(approximations[val]))])])

approx_local ==
    Fix([name \in SboxNames |->
        Fix([layer \in LayerNames |-> expand_lat(forward_approx(name), layer)])])

\* the records the loop `for (auto const &approx: ...)` runs over, each with
\* the mask it ORs into pout
Approxes(c, box, val_in) ==
    IF c.variant = "faster"
    THEN approx_local[c.sbox][c.layer][box][val_in]
    ELSE forward_approx(c.sbox)[val_in]

\* the output is not moved into its slot
OutMaskLow(c, box, approx) ==
    IF c.variant = "faster" THEN approx.output ELSE Bits(approx.output)

OutMask(c, box, approx) ==
    IF c.variant = "faster"
    THEN approx.output
    ELSE Shl(Bits(approx.output), box * CIPHER_SBOX_SIZE)

\* pout is handed on as it is
NextPinRaw(c, pout) == pout

\* the parity handed to the next round
NextPin(c, pout) == IF c.variant = "faster" THEN pout ELSE permute(c.layer, pout)

\* branch_bound_start: the values of pin it calls branch_bound_fill with, in
\* the order of the calls
RECURSIVE StartCalls(_, _, _)
StartCalls(pin, index, remain) ==
    IF remain > 0 /\ index < Sboxes
    THEN LET RECURSIVE Loop(_)
             Loop(v) ==
                 IF v = CIPHER_SBOX_VALUES THEN << >>
                 ELSE StartCalls(pin \cup Shl(Bits(v), index * CIPHER_SBOX_SIZE),
                                 index + 1,
                                 IF v = 0 THEN remain ELSE remain - 1) \o Loop(v + 1)
         IN  Loop(0)
    ELSE IF pin # {} THEN <<pin>> ELSE << >>

StartTable == Fix([remain \in 1 .. (MaxWeight + CLASSIC_REMAIN) |-> StartCalls({}, 0, remain)])

StartSeq(c) == StartTable[IF c.variant = "faster" THEN c.weight ELSE CLASSIC_REMAIN]

\* bounds[rounds - 1] itself
SeedNoFactor(b) == b

\* bounds[rounds - 1] * 2^-9
SeedHalved(b) == DMul(b, <<1, 9>>)

\* bounds[rounds - 1] * 0.00390625
Seed(b) == DMul(b, <<1, 8>>)

\* the bound check with < in place of <=
PrunedStrict(new_elp, rest, best) == DLt(DMul(new_elp, rest), best)

\* new_elp * bounds[rounds - (r + 1)] <= bounds[rounds]
Pruned(new_elp, rest, best) == DLeq(DMul(new_elp, rest), best)

\* elp > bounds[rounds]
FlippedImproves(elp, best) == DLt(elp, best)
Improves(elp, best) == DLt(best, elp)

\* for (i = 0; i <= rounds; i++) trail[i] = trace[i]
CopyTraceShort(tl, tc, n) == [i \in 0 .. Rounds |-> IF i < n THEN tc[i] ELSE tl[i]]
CopyTrace(tl, tc, n) == [i \in 0 .. Rounds |-> IF i <= n THEN tc[i] ELSE tl[i]]

\* the loop `for (; box < Sboxes; box++)` up to its first active slot
RECURSIVE NextActive(_, _)
NextActive(pin, box) ==
    IF box < Sboxes /\ ValIn(pin, box) = 0 THEN NextActive(pin, box + 1) ELSE box

\* the count of activated S-boxes is not kept
FrameUncounted(elp, pin, pout, w, r, box) ==
    [elp |-> elp, pin |-> pin, pout |-> pout, weight |-> 0, r |-> r, box |-> box, k |-> 0]

Frame(elp, pin, pout, w, r, box) ==
    [elp |-> elp, pin |-> pin, pout |-> pout, weight |-> w, r |-> r, box |-> box, k |-> 0]

Top  == stack[Len(stack)]
Pop  == SubSeq(stack, 1, Len(stack) - 1)
TopBox == NextActive(Top.pin, Top.box)
TopList == Approxes(cfg, TopBox, ValIn(Top.pin, TopBox))

\* the mask-set engine is not part of a branch-and-bound run
MSIdle ==
    /\ mcfg = [variant |-> "none"]
    /\ mpc = "off"
    /\ round = 0
    /\ masks = << >>
    /\ members = {}
    /\ fitness = << >>
    /\ tasks = << >>
    /\ out = << >>
    /\ discarded = {}

BBInit ==
    /\ cfg \in Configs
    /\ pc = "search"
    /\ rounds = 0
    /\ bounds = [i \in 0 .. Rounds |-> IF i = 0 THEN One ELSE Zero]
    /\ trail = [i \in 0 .. Rounds |-> {}]
    /\ trace = [i \in 0 .. Rounds |-> {}]
    /\ pinIdx = 0
    /\ stack = << >>
    /\ MSIdle
    /\ ENIdle
    /\ HPCIdle
    /\ LATIdle
    /\ RECTIdle
    /\ DBGIdle
    /\ PERMIdle

\* branch_bound_search: next iteration of the loop over rounds
SearchSeedInPlace ==
    /\ pc = "search" /\ rounds < Rounds
    /\ rounds' = rounds + 1
    /\ bounds' = [bounds EXCEPT ![rounds] = Seed(bounds[rounds])]
    /\ pinIdx' = 1
    /\ pc' = "start"
    /\ UNCHANGED <<cfg, trail, trace, stack>>
    /\ UNCHANGED <<msVars, enVars, hpcVars, latVars, rectVars, dbgVars, permVars>>
SearchSeed ==
    /\ pc = "search" /\ rounds < Rounds
    /\ rounds' = rounds + 1
    /\ bounds' = [bounds EXCEPT ![rounds + 1] = Seed(bounds[rounds])]
    /\ pinIdx' = 1
    /\ pc' = "start"
    /\ UNCHANGED <<cfg, trail, trace, stack>>
    /\ UNCHANGED <<msVars, enVars, hpcVars, latVars, rectVars, dbgVars, permVars>>

\* branch_bound_search: the loop over rounds ends
SearchDone ==
    /\ pc = "search" /\ rounds = Rounds
    /\ pc' = "done"
    /\ UNCHANGED <<cfg, rounds, bounds, trail, trace, pinIdx, stack>>
    /\ UNCHANGED <<msVars, enVars, hpcVars, latVars, rectVars, dbgVars, permVars>>

\* branch_bound_start reaches its next pin and calls branch_bound_fill
StartFill ==
    /\ pc = "start" /\ stack = << >> /\ pinIdx <= Len(StartSeq(cfg))
    /\ LET pin == StartSeq(cfg)[pinIdx]
       IN  /\ trace' = IF cfg.variant = "faster"
                       THEN [i \in 0 .. Rounds |-> IF i = 0 THEN pin ELSE {}]
                       ELSE trace
           /\ stack' = <<Frame(One, pin, {}, 0, 0, 0)>>
    /\ pinIdx' = pinIdx + 1
    /\ UNCHANGED <<cfg, pc, rounds, bounds, trail>>
    /\ UNCHANGED <<msVars, enVars, hpcVars, latVars, rectVars, dbgVars, permVars>>

\* branch_bound_start has enumerated every pin
StartReturn ==
    /\ pc = "start" /\ stack = << >> /\ pinIdx > Len(StartSeq(cfg))
    /\ pc' = "search"
    /\ UNCHANGED <<cfg, rounds, bounds, trail, trace, pinIdx, stack>>
    /\ UNCHANGED <<msVars, enVars, hpcVars, latVars, rectVars, dbgVars, permVars>>

\* if (weight >= Weight) return;
FillWeightReturn ==
    /\ stack # << >> /\ TopBox < Sboxes
    /\ Top.weight >= cfg.weight
    /\ stack' = Pop
    /\ UNCHANGED <<cfg, pc, rounds, bounds, trail, trace, pinIdx>>
    /\ UNCHANGED <<msVars, enVars, hpcVars, latVars, rectVars, dbgVars, permVars>>

\* the bound check fails for the next record: continue
FillPrune ==
    /\ stack # << >> /\ TopBox < Sboxes
    /\ Top.weight < cfg.weight
    /\ Top.k < Len(TopList)
    /\ Pruned(DMul(Top.elp, TopList[Top.k + 1].corr), bounds[rounds - (Top.r + 1)], bounds[rounds])
    /\ stack' = [stack EXCEPT ![Len(stack)].box = TopBox, ![Len(stack)].k = @ + 1]
    /\ UNCHANGED <<cfg, pc, rounds, bounds, trail, trace, pinIdx>>
    /\ UNCHANGED <<msVars, enVars, hpcVars, latVars, rectVars, dbgVars, permVars>>

\* the next record passes the bound check: recursive call for the next slot
FillDescend ==
    /\ stack # << >> /\ TopBox < Sboxes
    /\ Top.weight < cfg.weight
    /\ Top.k < Len(TopList)
    /\ LET approx  == TopList[Top.k + 1]
           new_elp == DMul(Top.elp, approx.corr)
       IN  /\ ~ Pruned(new_elp, bounds[rounds - (Top.r + 1)], bounds[rounds])
           /\ stack' = Append([stack EXCEPT ![Len(stack)].box = TopBox, ![Len(stack)].k = @ + 1],
                              Frame(new_elp, Top.pin, Top.pout \cup OutMask(cfg, TopBox, approx),
                                    Top.weight + 1, Top.r, TopBox + 1))
    /\ UNCHANGED <<cfg, pc, rounds, bounds, trail, trace, pinIdx>>
    /\ UNCHANGED <<msVars, enVars, hpcVars, latVars, rectVars, dbgVars, permVars>>

\* the loop over the records of the slot is over: return
FillLoopEnd ==
    /\ stack # << >> /\ TopBox < Sboxes
    /\ Top.weight < cfg.weight
    /\ Top.k = Len(TopList)
    /\ stack' = Pop
    /\ UNCHANGED <<cfg, pc, rounds, bounds, trail, trace, pinIdx>>
    /\ UNCHANGED <<msVars, enVars, hpcVars, latVars, rectVars, dbgVars, permVars>>

\* every slot done, last round: record the trail if it is better, return
FillLeaf ==
    /\ stack # << >> /\ TopBox = Sboxes
    /\ Top.r + 1 = rounds
    /\ LET tc == [trace EXCEPT ![Top.r + 1] = Top.pout]
       IN  /\ trace' = IF cfg.variant = "faster" THEN tc ELSE trace
           /\ IF Improves(Top.elp, bounds[rounds])
              THEN /\ bounds' = [bounds EXCEPT ![rounds] = Top.elp]
                   /\ trail' = IF cfg.variant = "faster"
                                THEN CopyTrace(trail, tc, rounds) ELSE trail
              ELSE UNCHANGED <<bounds, trail>>
    /\ stack' = Pop
    /\ UNCHANGED <<cfg, pc, rounds, pinIdx>>
    /\ UNCHANGED <<msVars, enVars, hpcVars, latVars, rectVars, dbgVars, permVars>>

\* every slot done, rounds left: the call for the next round, after which
\* this call returns as well
FillNextRound ==
    /\ stack # << >> /\ TopBox = Sboxes
    /\ Top.r + 1 < rounds
    /\ trace' = IF cfg.variant = "faster" THEN [trace EXCEPT ![Top.r + 1] = Top.pout] ELSE trace
    /\ stack' = Append(Pop, Frame(Top.elp, NextPin(cfg, Top.pout), {}, 0, Top.r + 1, 0))
    /\ UNCHANGED <<cfg, pc, rounds, bounds, trail, pinIdx>>
    /\ UNCHANGED <<msVars, enVars, hpcVars, latVars, rectVars, dbgVars, permVars>>

BBNext ==
    \/ SearchSeed
    \/ SearchDone
    \/ StartFill
    \/ StartReturn
    \/ FillWeightReturn
    \/ FillPrune
    \/ FillDescend
    \/ FillLoopEnd
    \/ FillLeaf
    \/ FillNextRound

\* a run of branch_bound_search
SpecBB == BBInit /\ [][BBNext]_vars

\* ------------------------------------------------------------------------
\* The search space, enumerated without any pruning
\* ------------------------------------------------------------------------
\* the greatest element of a finite set of values, 0 for the empty set
MaxD(S) == IF S = {} THEN Zero ELSE CHOOSE x \in S : \A y \in S : DLeq(y, x)

\* every way to choose one record of forward[] per active slot of m, from
\* slot `box` on: <<OR of the outputs in their slots, product of the ELPs>>
RECURSIVE LayerChoices(_, _, _)
LayerChoices(name, m, box) ==
    IF box = Sboxes THEN {<<{}, One>>}
    ELSE LET rest == LayerChoices(name, m, box + 1)
             v    == ValIn(m, box)
             row  == forward_approx(name)[v]
         IN  IF v = 0 THEN rest
             ELSE {<<Shl(Bits(row[k].output), box * CIPHER_SBOX_SIZE) \cup p[1],
                     DMul(row[k].corr, p[2])>> : k \in 1 .. Len(row), p \in rest}

\* one round from m: <<mask after the linear layer, ELP of the round>>
OneRound(name, layer, m) ==
    {<<permute(layer, p[1]), p[2]>> : p \in LayerChoices(name, m, 0)}

\* the masks a round may start from
Admissible(w) == {m \in AllMasks : m # {} /\ nibble_weight(m) <= w}

\* OneRound, computed once for every mask a round may start from
OneRoundTable ==
    Fix([name \in SboxNames |->
        Fix([layer \in LayerNames |->
            Fix([m \in Admissible(MaxWeight) |-> OneRound(name, layer, m)])])])

\* BestFrom(..., k)[j][m], j <= k: the greatest ELP of a j-round trail that
\* starts at m and has at most w active slots in each of its j rounds; 0 if
\* there is none
RECURSIVE BestFrom(_, _, _, _)
BestFrom(name, layer, w, k) ==
    IF k = 0 THEN << >>
    ELSE LET prev == BestFrom(name, layer, w, k - 1)
             last == IF k = 1 THEN << >> ELSE prev[k - 1]
         IN  Append(prev,
                 Fix([m \in Admissible(w) |->
                     MaxD({DMul(p[2], IF k = 1 THEN One
                                      ELSE IF p[1] \in DOMAIN last THEN last[p[1]] ELSE Zero) :
                           p \in OneRoundTable[name][layer][m]})]))

BestTrail(name, layer, w) ==
    LET best == BestFrom(name, layer, w, Rounds)
    IN  Fix([k \in 0 .. Rounds |->
            IF k = 0 THEN One ELSE MaxD({best[k][m] : m \in DOMAIN best[k]})])

BestElpTable ==
    Fix([name \in SboxNames |->
        Fix([layer \in LayerNames |->
            Fix([w \in 1 .. MaxWeight |-> BestTrail(name, layer, w)])])])

\* the maximum ELP of a k-round trail of the search space of build c
BestElp(c, k) == BestElpTable[c.sbox][c.layer][c.weight][k]

\* the ELP of the round that leads from mask a to mask b, 0 if b cannot be
\* obtained from a by one record per active slot and the linear layer
StepElp(c, a, b) ==
    MaxD({p[2] : p \in {q \in OneRound(c.sbox, c.layer, a) : q[1] = b}})

RECURSIVE TrailElp(_, _, _)
TrailElp(c, tl, n) ==
    IF n = 0 THEN One ELSE DMul(TrailElp(c, tl, n - 1), StepElp(c, tl[n - 1], tl[n]))

\* ------------------------------------------------------------------------
\* Properties of the branch-and-bound search
\* ------------------------------------------------------------------------
\* the search for depth `rounds` is over
DepthDone == pc \in {"search", "done"} /\ rounds >= 1

C7_LowerBound ==
    rounds >= 1 => \A r \in 0 .. rounds : DLeq(bounds[r], BestElp(cfg, r))

C7_Witness ==
    /\ pc = "start" /\ stack # << >> /\ rounds = Rounds
    /\ bounds[rounds] = Seed(bounds[rounds - 1])
    /\ DLt(bounds[rounds], BestElp(cfg, rounds))

BoundsOrdered ==
    /\ bounds[0] = One
    /\ \A r \in 0 .. Rounds - 1 : DLeq(bounds[r + 1], bounds[r])

\* a step that changes a seeded bound makes it strictly larger
SeededWriteGrows ==
    \A r \in 0 .. Rounds :
        (r <= rounds /\ bounds'[r] # bounds[r]) => DLt(bounds[r], bounds'[r])

\* C9: at every point of the search bounds[0] = 1 and bounds[r] >= bounds[r+1]
\* for every r, and every write to a seeded bound stores a strictly larger
\* value
C9_BoundsMonotone == []BoundsOrdered /\ [][SeededWriteGrows]_vars

C9_Witness ==
    /\ pc = "start" /\ rounds >= 2
    /\ DLt(Seed(bounds[rounds - 1]), bounds[rounds])
    /\ DLt(bounds[rounds], bounds[rounds - 1])

\* ------------------------------------------------------------------------
\* Mask-set engine (PRESENT/mask-search.cpp, PRESENT-MPI)
\* ------------------------------------------------------------------------
\* std::priority_queue<elemT, std::vector<elemT>, CompareMask>: a binary heap
\* in a vector (first element = top), an element is <<mask, ELP>>

\* CompareMask: a.second > b.second
CompareMaskLess(a, b) == DLt(a[2], b[2])

CompareMask(a, b) == DLt(b[2], a[2])

\* std::__push_heap: move `value` up from the hole (positions count from 1)
RECURSIVE PushHeap(_, _, _)
PushHeap(h, hole, value) ==
    IF hole > 1 /\ CompareMask(h[hole \div 2], value)
    THEN PushHeap([h EXCEPT ![hole] = h[hole \div 2]], hole \div 2, value)
    ELSE [h EXCEPT ![hole] = value]

\* fitness.push(elem)
HeapPush(h, elem) == PushHeap(Append(h, elem), Len(h) + 1, elem)

\* std::__adjust_heap: move the hole down along the preferred children to
\* the bottom of a heap of `len` elements, then push `value` up from there
RECURSIVE AdjustHeap(_, _, _, _)
AdjustHeap(h, hole, len, value) ==
    IF 2 * hole + 1 <= len
    THEN LET child == IF CompareMask(h[2 * hole + 1], h[2 * hole])
                      THEN 2 * hole ELSE 2 * hole + 1
         IN  AdjustHeap([h EXCEPT ![hole] = h[child]], child, len, value)
    ELSE IF 2 * hole = len
         THEN PushHeap([h EXCEPT ![hole] = h[2 * hole]], 2 * hole, value)
         ELSE PushHeap(h, hole, value)

\* fitness.pop(): pop_heap, then pop_back
HeapPop(h) ==
    IF Len(h) <= 1 THEN << >>
    ELSE AdjustHeap(SubSeq(h, 1, Len(h) - 1), 1, Len(h) - 1, h[Len(h)])

\* fitness.top()
HeapTop(h) == h[1]

\* add with the test worst.second > elem.second in place of >=
add_ties(members_, fitness_, elem, Limit) ==
    IF elem[1] \in members_
    THEN [members |-> members_, fitness |-> fitness_]
    ELSE IF Len(fitness_) >= Limit
         THEN LET worst == HeapTop(fitness_)
              IN  IF DLt(elem[2], worst[2])
                  THEN [members |-> members_, fitness |-> fitness_]
                  ELSE [members |-> (members_ \ {worst[1]}) \cup {elem[1]},
                        fitness |-> HeapPush(HeapPop(fitness_), elem)]
         ELSE [members |-> members_ \cup {elem[1]},
               fitness |-> HeapPush(fitness_, elem)]

\* add without the test for membership
add_unchecked(members_, fitness_, elem, Limit) ==
    IF Len(fitness_) >= Limit
    THEN LET worst == HeapTop(fitness_)
         IN  IF DLeq(elem[2], worst[2])
             THEN [members |-> members_, fitness |-> fitness_]
             ELSE [members |-> (members_ \ {worst[1]}) \cup {elem[1]},
                   fitness |-> HeapPush(HeapPop(fitness_), elem)]
    ELSE [members |-> members_ \cup {elem[1]},
          fitness |-> HeapPush(fitness_, elem)]

\* MaskCollector<Limit>::add on the pair (members, fitness)
add(members_, fitness_, elem, Limit) ==
    IF elem[1] \in members_
    THEN [members |-> members_, fitness |-> fitness_]
    ELSE IF Len(fitness_) >= Limit
         THEN LET worst == HeapTop(fitness_)
              IN  IF DLeq(elem[2], worst[2])
                  THEN [members |-> members_, fitness |-> fitness_]
                  ELSE [members |-> (members_ \ {worst[1]}) \cup {elem[1]},
                        fitness |-> HeapPush(HeapPop(fitness_), elem)]
         ELSE [members |-> members_ \cup {elem[1]},
               fitness |-> HeapPush(fitness_, elem)]

\* the second critical section of fill in PRESENT/mask-search.cpp
fill_insert(members_, fitness_, elem, size) ==
    IF Len(fitness_) < size
    THEN [members |-> members_ \cup {elem[1]},
          fitness |-> HeapPush(fitness_, elem)]
    ELSE LET worst == HeapTop(fitness_)
         IN  IF DLeq(elem[2], worst[2])
             THEN [members |-> members_, fitness |-> fitness_]
             ELSE [members |-> (members_ \ {worst[1]}) \cup {elem[1]},
                   fitness |-> HeapPush(HeapPop(fitness_), elem)]

\* MaskMap as the sequence of its <<mask, ELP>> entries, keys distinct
Keys(map) == {map[i][1] : i \in 1 .. Len(map)}
Lookup(map, key) == (CHOOSE i \in 1 .. Len(map) : map[i][1] = key)

\* the map as a function from its keys to their values
MapOf(map) == Fix([key \in Keys(map) |-> map[Lookup(map, key)][2]])

\* masks.insert(elem): no effect when the key is present
MapInsert(map, elem) == IF elem[1] \in Keys(map) THEN map ELSE Append(map, elem)

\* fill (mask-search.cpp) up to its leaf: the values of pout it reaches the
\* leaf with, in order
RECURSIVE FillLeaves(_, _, _, _, _, _)
FillLeaves(name, pin, pout, max_weight, pat_weight, n) ==
    LET box == NextActive(pin, n)
        row == forward_approx(name)[ValIn(pin, box)]
        RECURSIVE Loop(_)
        Loop(k) ==
            IF k > Len(row) THEN << >>
            ELSE (IF pat_weight + 1 > max_weight THEN << >>
                  ELSE FillLeaves(name, pin,
                                  pout \cup Shl(Bits(row[k].output), box * CIPHER_SBOX_SIZE),
                                  max_weight, pat_weight + 1, box + 1))
                 \o Loop(k + 1)
    IN  IF box = Sboxes THEN <<pout>>
        ELSE IF pat_weight = max_weight THEN << >>
        ELSE Loop(1)

\* back_propergate, pre_masks a function from masks to their ELP
RECURSIVE back_propergate(_, _, _, _, _, _)
back_propergate(name, pre_masks, pin, pout, corr, n) ==
    LET box == NextActive(pin, n)
        row == backward_approx(name)[ValIn(pin, box)]
        RECURSIVE Loop(_)
        Loop(k) ==
            IF k > Len(row) THEN Zero
            ELSE DAdd(back_propergate(name, pre_masks, pin,
                                      pout \cup Shl(Bits(row[k].output), box * CIPHER_SBOX_SIZE),
                                      DMul(corr, row[k].corr), box + 1),
                      Loop(k + 1))
    IN  IF box < Sboxes THEN Loop(1)
        ELSE IF pout \notin DOMAIN pre_masks THEN Zero
        ELSE DMul(pre_masks[pout], corr)

\* ------------------------------------------------------------------------
\* The rounds of the mask-set engine
\* ------------------------------------------------------------------------
\* the cap on active slots collect_round passes to fill (4 of the 16 slots
\* in the programs)
MaxFillWeight == 1

\* largest collector limit that is tried (the programs use 1000000, 1 << 22)
MaxLimit == 2

\* the values of alpha (argv) that are tried: 0xe, 0xc, 0xd
Alphas == {{1, 2, 3}, {2, 3}, {0, 2, 3}}

Programs == {"present", "mpi"}

MConfigs == [sbox : {"gift"}, layer : LayerNames, alpha : Alphas,
             limit : 1 .. MaxLimit, variant : Programs]

\* the leaves of fill for every mask it can be called with
LeavesTable ==
    Fix([name \in {"gift"} |->
        Fix([pin \in AllMasks |-> FillLeaves(name, pin, {}, MaxFillWeight, 0, 0)])])

\* fill, called by the task of the round for mask pin: it stands before its
\* i-th leaf
Task(pin) == [pin |-> pin, i |-> 1, phase |-> "check", elp |-> Zero]

Leaves(t) == LeavesTable[mcfg.sbox][tasks[t].pin]

RECURSIVE Dispatch(_, _)
Dispatch(slice, n) ==
    IF n = 0 THEN << >> ELSE Append(Dispatch(slice, n - 1), Task(slice[n][1]))

\* flat_buff[n].first = permute(flat_buff[n].first), masks.insert(flat_buff[n])
RECURSIVE Rebuild(_, _)
Rebuild(flat, n) ==
    IF n = 0 THEN << >>
    ELSE MapInsert(Rebuild(flat, n - 1), <<permute(mcfg.layer, flat[n][1]), flat[n][2]>>)

\* the candidate the task stands at
Pout(t) == Leaves(t)[tasks[t].i]

\* the task leaves its call of fill at the leaf and goes on to the next one
Advance(t) == [tasks EXCEPT ![t].i = @ + 1, ![t].phase = "check", ![t].elp = Zero]

\* the ELP the collector discards when it is offered elem and its heap
\* becomes f: the one of elem if the heap discipline turns it down, the one
\* of the evicted entry if elem replaces it.  The offer of a mask that add
\* finds among the members discards nothing, the mask is held
Dropped(f, elem) ==
    IF mcfg.variant = "mpi" /\ elem[1] \in members THEN {}
    ELSE IF f = fitness THEN {elem[2]}
    ELSE IF Len(f) = Len(fitness) THEN {HeapTop(fitness)[2]} ELSE {}

\* the branch-and-bound search is not part of a mask-set run
BBIdle ==
    /\ cfg = [variant |-> "none"]
    /\ pc = "off"
    /\ rounds = 0
    /\ bounds = << >>
    /\ trail = << >>
    /\ trace = << >>
    /\ pinIdx = 0
    /\ stack = << >>

\* main / collect_sets up to the first round: masks holds (alpha, 1)
MSInit ==
    /\ mcfg \in MConfigs
    /\ mpc = "round"
    /\ round = IF mcfg.variant = "present" THEN 1 ELSE 0
    /\ masks = << <<mcfg.alpha, One>> >>
    /\ members = {}
    /\ fitness = << >>
    /\ tasks = << >>
    /\ out = << >>
    /\ discarded = {}
    /\ BBIdle
    /\ ENIdle
    /\ HPCIdle
    /\ LATIdle
    /\ RECTIdle
    /\ DBGIdle
    /\ PERMIdle

\* collect_round: one task per mask of the slice.  PRESENT clears the member
\* set first; PRESENT-MPI permutes flat_buff and rebuilds masks from it
CollectRound ==
    /\ mpc = "round" /\ round < EngineRounds
    /\ LET pre == IF mcfg.variant = "mpi" /\ round > 0
                  THEN Rebuild(out, Len(out)) ELSE masks
       IN  /\ masks' = pre
           /\ tasks' = Dispatch(pre, Len(pre))
    /\ members' = IF mcfg.variant = "present" THEN {} ELSE members
    /\ discarded' = {}
    /\ mpc' = "tasks"
    /\ UNCHANGED <<mcfg, round, fitness, out>>
    /\ UNCHANGED <<bbVars, enVars, hpcVars, latVars, rectVars, dbgVars, permVars>>

\* the loop over the rounds is over
Finish ==
    /\ mpc = "round" /\ round = EngineRounds
    /\ mpc' = "done"
    /\ UNCHANGED <<mcfg, round, masks, members, fitness, tasks, out, discarded>>
    /\ UNCHANGED <<bbVars, enVars, hpcVars, latVars, rectVars, dbgVars, permVars>>

\* fill at a leaf: the membership test (first critical section), then
\* back_propergate and the test against TINY
TaskCheck(t) ==
    /\ mpc = "tasks"
    /\ tasks[t].i <= Len(Leaves(t)) /\ tasks[t].phase = "check"
    /\ IF Pout(t) \in members
       THEN tasks' = Advance(t)
       ELSE LET elp == back_propergate(mcfg.sbox, MapOf(masks), Pout(t), {}, One, 0)
            IN  IF DLt(elp, TINY)
                THEN tasks' = Advance(t)
                ELSE tasks' = [tasks EXCEPT ![t].phase = "add", ![t].elp = elp]
    /\ UNCHANGED <<mcfg, mpc, round, masks, members, fitness, out, discarded>>
    /\ UNCHANGED <<bbVars, enVars, hpcVars, latVars, rectVars, dbgVars, permVars>>

\* fill at a leaf: the second critical section
TaskAdd(t) ==
    /\ mpc = "tasks"
    /\ tasks[t].i <= Len(Leaves(t)) /\ tasks[t].phase = "add"
    /\ LET elem == <<Pout(t), tasks[t].elp>>
           c == IF mcfg.variant = "mpi"
                THEN add(members, fitness, elem, mcfg.limit)
                ELSE fill_insert(members, fitness, elem, mcfg.limit)
       IN  /\ members' = c.members
           /\ fitness' = c.fitness
           /\ discarded' = discarded \cup Dropped(c.fitness, elem)
    /\ tasks' = Advance(t)
    /\ UNCHANGED <<mcfg, mpc, round, masks, out>>
    /\ UNCHANGED <<bbVars, enVars, hpcVars, latVars, rectVars, dbgVars, permVars>>

\* #pragma omp taskwait: every task has returned
TaskWait ==
    /\ mpc = "tasks"
    /\ \A t \in 1 .. Len(tasks) : tasks[t].i > Len(Leaves(t))
    /\ mpc' = "drain"
    /\ tasks' = << >>
    /\ out' = << >>
    /\ UNCHANGED <<mcfg, round, masks, members, fitness, discarded>>
    /\ UNCHANGED <<bbVars, enVars, hpcVars, latVars, rectVars, dbgVars, permVars>>

\* collect_sets: one iteration of the loop that empties the heap
Drain ==
    /\ mpc = "drain" /\ mcfg.variant = "present"
    /\ fitness # << >>
    /\ LET elem == HeapTop(fitness)
       IN  out' = MapInsert(out, <<permute(mcfg.layer, elem[1]), elem[2]>>)
    /\ fitness' = HeapPop(fitness)
    /\ UNCHANGED <<mcfg, mpc, round, masks, members, tasks, discarded>>
    /\ UNCHANGED <<bbVars, enVars, hpcVars, latVars, rectVars, dbgVars, permVars>>

\* collect_sets: the heap is empty, masks[r] is complete
DrainEnd ==
    /\ mpc = "drain" /\ mcfg.variant = "present"
    /\ fitness = << >>
    /\ masks' = out
    /\ round' = round + 1
    /\ mpc' = "round"
    /\ UNCHANGED <<mcfg, members, fitness, tasks, out, discarded>>
    /\ UNCHANGED <<bbVars, enVars, hpcVars, latVars, rectVars, dbgVars, permVars>>

\* flatten: dst[size] = collector.pop()
Flatten ==
    /\ mpc = "drain" /\ mcfg.variant = "mpi"
    /\ fitness # << >> /\ Len(out) < mcfg.limit
    /\ LET worst == HeapTop(fitness)
       IN  /\ out' = Append(out, worst)
           /\ members' = members \ {worst[1]}
    /\ fitness' = HeapPop(fitness)
    /\ UNCHANGED <<mcfg, mpc, round, masks, tasks, discarded>>
    /\ UNCHANGED <<bbVars, enVars, hpcVars, latVars, rectVars, dbgVars, permVars>>

\* flatten returns
FlattenEnd ==
    /\ mpc = "drain" /\ mcfg.variant = "mpi"
    /\ ~ (fitness # << >> /\ Len(out) < mcfg.limit)
    /\ round' = round + 1
    /\ mpc' = "round"
    /\ UNCHANGED <<mcfg, masks, members, fitness, tasks, out, discarded>>
    /\ UNCHANGED <<bbVars, enVars, hpcVars, latVars, rectVars, dbgVars, permVars>>

MSNext ==
    \/ CollectRound
    \/ Finish
    \/ \E t \in 1 .. Len(tasks) : TaskCheck(t)
    \/ \E t \in 1 .. Len(tasks) : TaskAdd(t)
    \/ TaskWait
    \/ Drain
    \/ DrainEnd
    \/ Flatten
    \/ FlattenEnd

\* a run of the mask-set engine
SpecMS == MSInit /\ [][MSNext]_vars

\* ------------------------------------------------------------------------
\* Properties of the collector
\* ------------------------------------------------------------------------
HeapMasks(h) == {h[i][1] : i \in 1 .. Len(h)}

\* how often the entry x occurs in the heap h
Count(h, x) == Cardinality({i \in 1 .. Len(h) : h[i] = x})

\* the heaps h and g hold the same entries, each as often
SameEntries(h, g) ==
    /\ Len(h) = Len(g)
    /\ \A i \in 1 .. Len(h) : Count(h, h[i]) = Count(g, h[i])

\* h without its i-th entry
Without(h, i) == SubSeq(h, 1, i - 1) \o SubSeq(h, i + 1, Len(h))

\* the smallest ELP in the heap h
MinElp(h) == CHOOSE e \in {h[i][2] : i \in 1 .. Len(h)} :
                 \A i \in 1 .. Len(h) : DLeq(e, h[i][2])

\* C2: at every point of a mask-set round, the end-of-round drain included,
\* the heap holds at most K entries, the masks in the heap are exactly the
\* members, and no mask occurs twice in the heap
C2_CollectorInvariant ==
    /\ Len(fitness) <= mcfg.limit
    /\ HeapMasks(fitness) = members
    /\ \A i, j \in 1 .. Len(fitness) : fitness[i][1] = fitness[j][1] => i = j

\* task t is in its critical section around the collector and this step
\* leaves it
AddStep(t) ==
    /\ mpc = "tasks" /\ t <= Len(tasks) /\ tasks[t].phase = "add"
    /\ Len(tasks') = Len(tasks) /\ tasks'[t] # tasks[t]

\* nothing changes in the collector
CollectorSame == fitness' = fitness /\ members' = members

\* task t stands at its membership test and this step takes it
CheckStep(t) ==
    /\ mpc = "tasks" /\ t <= Len(tasks) /\ tasks[t].phase = "check"
    /\ Len(tasks') = Len(tasks) /\ tasks'[t] # tasks[t]

\* the effect on the collector the discipline asks of an offer of elem that
\* has passed the membership test
Disciplined(elem) ==
    IF elem[1] \in members
    THEN mcfg.variant = "mpi" => CollectorSame
    ELSE IF Len(fitness) < mcfg.limit
         THEN /\ SameEntries(fitness', Append(fitness, elem))
              /\ members' = members \cup {elem[1]}
         ELSE IF DLt(MinElp(fitness), elem[2])
              THEN \E i \in 1 .. Len(fitness) :
                      /\ fitness[i][2] = MinElp(fitness)
                      /\ SameEntries(fitness', Append(Without(fitness, i), elem))
                      /\ members' = (members \ {fitness[i][1]}) \cup {elem[1]}
              ELSE CollectorSame

C4_OneCriticalSection ==
    [][\A t \in 1 .. MaxLimit :
          (AddStep(t) /\ Count(fitness', <<Pout(t), tasks[t].elp>>)
                           > Count(fitness, <<Pout(t), tasks[t].elp>>))
          => Pout(t) \notin members]_vars

\* every task of the round has returned
RoundEnd ==
    /\ mpc = "tasks"
    /\ \A t \in 1 .. Len(tasks) : tasks[t].i > Len(Leaves(t))

\* C5: at the end of a round every entry the collector holds has an ELP
\* greater than or equal to the ELP of every candidate the collector turned
\* down or evicted in that round
C5_RetainedAboveDiscarded ==
    RoundEnd => \A i \in 1 .. Len(fitness) : \A d \in discarded : DLeq(d, fitness[i][2])

C5_Witness ==
    /\ RoundEnd /\ Len(tasks) >= 2
    /\ Len(fitness) = mcfg.limit
    /\ Cardinality(discarded) >= 2
    /\ \E d \in discarded : d = MinElp(fitness)

\* the collector after the tasks t, t+1, ... of the round have run one after
\* the other, task t from its i-th leaf on
RECURSIVE SerialRound(_, _, _)
SerialRound(c, t, i) ==
    IF t > Len(tasks) THEN c
    ELSE IF i > Len(Leaves(t)) THEN SerialRound(c, t + 1, 1)
    ELSE LET pout == Leaves(t)[i]
             elp  == back_propergate(mcfg.sbox, MapOf(masks), pout, {}, One, 0)
         IN  IF pout \in c.members \/ DLt(elp, TINY)
             THEN SerialRound(c, t, i + 1)
             ELSE SerialRound(IF mcfg.variant = "mpi"
                              THEN add(c.members, c.fitness, <<pout, elp>>, mcfg.limit)
                              ELSE fill_insert(c.members, c.fitness, <<pout, elp>>, mcfg.limit),
                              t, i + 1)

Entries(h) == {h[i] : i \in 1 .. Len(h)}

\* C6: whatever the schedule of the tasks of a round, the (mask, ELP) pairs
\* the collector holds when the taskwait completes are the pairs it holds
\* after the same tasks have run serially
C6_SerialEquivalent ==
    RoundEnd =>
        Entries(fitness) = Entries(SerialRound([members |-> {}, fitness |-> << >>], 1, 1).fitness)

\* ------------------------------------------------------------------------
\* The direct accumulation (GIFT/enumerate)
\* ------------------------------------------------------------------------
EConfigs == [sbox : {"gift"}, layer : LayerNames, hw : 1 .. MaxWeight, ndebug : BOOLEAN]

\* init_pool: every mask with at most hw active slots gets the value 1; the
\* entries map1[pin] = 1.0 in the order they are made (no pin is met twice)
RECURSIVE init_pool(_, _, _)
init_pool(pin, index, hw) ==
    LET RECURSIVE Loop(_)
        Loop(v) ==
            IF v = CIPHER_SBOX_VALUES THEN << >>
            ELSE init_pool(pin \cup Shl(Bits(v), index * CIPHER_SBOX_SIZE),
                           index + 1, IF v = 0 THEN hw ELSE hw - 1)
                 \o Loop(v + 1)
    IN  IF hw = 0 \/ index >= Sboxes THEN <<<<pin, One>>>>
        ELSE Loop(0)

InitPoolTable == Fix([hw \in 1 .. MaxWeight |-> init_pool({}, 0, hw)])

\* pool_new[pout] = value
AccumulateAssign(pool, key, value) ==
    IF key \in DOMAIN pool THEN [pool EXCEPT ![key] = value]
    ELSE pool @@ (key :> value)

\* pool_new[pout] += value; operator[] creates the entry with 0.0
Accumulate(pool, key, value) ==
    IF key \in DOMAIN pool THEN [pool EXCEPT ![key] = DAdd(@, value)]
    ELSE pool @@ (key :> DAdd(Zero, value))

\* fill of iterate.cpp on st = [pool, aborted]; aborted is set when the
\* assertion at the leaf fails in a build that compiles assertions in
RECURSIVE fill(_, _, _, _, _, _, _, _)
fill(st, c, value, pin, pout, max_weight, pat_weight, n) ==
    LET box == NextActive(pin, n)
        row == forward_approx(c.sbox)[ValIn(pin, box)]
        RECURSIVE Loop(_, _)
        Loop(s, k) ==
            IF k > Len(row) \/ s.aborted THEN s
            ELSE Loop(IF pat_weight + 1 > max_weight THEN s
                      ELSE fill(s, c, DMul(value, row[k].corr), pin,
                                pout \cup Shl(Bits(row[k].output), box * CIPHER_SBOX_SIZE),
                                max_weight, pat_weight + 1, box + 1),
                      k + 1)
    IN  IF st.aborted THEN st
        ELSE IF box = Sboxes
             THEN IF ~ c.ndebug /\ ~ (weight(pout) <= max_weight)
                  THEN [st EXCEPT !.aborted = TRUE]
                  ELSE [st EXCEPT !.pool = Accumulate(@, permute(c.layer, pout), value)]
        ELSE IF pat_weight = max_weight THEN st
        ELSE Loop(st, 1)

\* the entries of the map f, in the order a loop over them takes them
RECURSIVE EntriesOf(_, _)
EntriesOf(f, S) ==
    IF S = {} THEN << >>
    ELSE LET key == CHOOSE k \in S : TRUE
         IN  <<<<key, f[key]>>>> \o EntriesOf(f, S \ {key})

\* the mask-set engine is not part of a run of the direct accumulation
ENInit ==
    /\ ecfg \in EConfigs
    /\ epc = "fill"
    /\ eround = 0
    /\ pool_cur = InitPoolTable[ecfg.hw]
    /\ pool_new = << >>
    /\ pcs = 0
    /\ BBIdle
    /\ MSIdle
    /\ HPCIdle
    /\ LATIdle
    /\ RECTIdle
    /\ DBGIdle
    /\ PERMIdle

\* the state fill leaves for the next entry of pool_cur
Filled ==
    fill([pool |-> pool_new, aborted |-> FALSE], ecfg, pool_cur[pcs + 1][2],
         pool_cur[pcs + 1][1], {}, ecfg.hw, 0, 0)

\* run: the call of fill for the next entry of pool_cur
EnumFill ==
    /\ epc = "fill" /\ pcs < Len(pool_cur)
    /\ ~ Filled.aborted
    /\ pool_new' = Filled.pool
    /\ pcs' = pcs + 1
    /\ UNCHANGED <<ecfg, epc, eround, pool_cur>>
    /\ UNCHANGED <<bbVars, msVars, hpcVars, latVars, rectVars, dbgVars, permVars>>

\* the assertion at the leaf of fill fails, the program stops
EnumAbort ==
    /\ epc = "fill" /\ pcs < Len(pool_cur)
    /\ Filled.aborted
    /\ epc' = "abort"
    /\ UNCHANGED <<ecfg, eround, pool_cur, pool_new, pcs>>
    /\ UNCHANGED <<bbVars, msVars, hpcVars, latVars, rectVars, dbgVars, permVars>>

\* run: the loop over pool_cur is over
EnumFilled ==
    /\ epc = "fill" /\ pcs = Len(pool_cur)
    /\ epc' = "swap"
    /\ UNCHANGED <<ecfg, eround, pool_cur, pool_new, pcs>>
    /\ UNCHANGED <<bbVars, msVars, hpcVars, latVars, rectVars, dbgVars, permVars>>

\* run: swap the pools, clear pool_new, go to the next round
EnumSwap ==
    /\ epc = "swap"
    /\ pool_cur' = EntriesOf(pool_new, DOMAIN pool_new)
    /\ pool_new' = << >>
    /\ pcs' = 0
    /\ eround' = eround + 1
    /\ epc' = IF eround + 1 < EngineRounds /\ DOMAIN pool_new # {} THEN "fill" ELSE "done"
    /\ UNCHANGED ecfg
    /\ UNCHANGED <<bbVars, msVars, hpcVars, latVars, rectVars, dbgVars, permVars>>

ENNext ==
    \/ EnumFill
    \/ EnumAbort
    \/ EnumFilled
    \/ EnumSwap

\* a run of the direct accumulation
SpecEN == ENInit /\ [][ENNext]_vars

\* ------------------------------------------------------------------------
\* Back-propagation against the direct accumulation
\* ------------------------------------------------------------------------
\* the ELP of the approximation a -> b of one S-box
ElpTable ==
    Fix([name \in {"gift"} |->
        Fix([a \in 0 .. (CIPHER_SBOX_VALUES - 1) |->
            Fix([b \in 0 .. (CIPHER_SBOX_VALUES - 1) |->
                DMul(Corr(SBOX(name), a, b), Corr(SBOX(name), a, b))])])])

\* the product of the ELPs of the S-box approximations from pre to pout
RECURSIVE PathElp(_, _, _, _)
PathElp(name, pre, pout, box) ==
    IF box = Sboxes THEN One
    ELSE DMul(ElpTable[name][ValIn(pre, box)][ValIn(pout, box)],
              PathElp(name, pre, pout, box + 1))

\* the sum over the masks pre in S of F[pre] times PathElp(pre, pout)
RECURSIVE PathSum(_, _, _, _)
PathSum(name, F, S, pout) ==
    IF S = {} THEN Zero
    ELSE LET pre == CHOOSE k \in S : TRUE
         IN  DAdd(DMul(F[pre], PathElp(name, pre, pout, 0)),
                  PathSum(name, F, S \ {pre}, pout))

\* the candidates the forward expander produces from the masks of pool_cur
Candidates ==
    UNION {{l[k] : k \in 1 .. Len(l)} :
              l \in {FillLeaves(ecfg.sbox, pool_cur[i][1], {}, ecfg.hw, 0, 0) :
                        i \in 1 .. Len(pool_cur)}}

\* C10: for the frontier pool_cur and every candidate pout the forward
\* expander produces from one of its masks, back_propergate over the backward
\* table returns the sum over the masks pre of the frontier of F[pre] times the
\* product of the ELPs of the S-box approximations from pre to pout, and this
\* is the value the direct accumulation holds for pout under permute(pout)
C10_BackPropIsForward ==
    epc = "swap" =>
        LET F == MapOf(pool_cur)
        IN  \A pout \in Candidates :
                LET back == back_propergate(ecfg.sbox, F, pout, {}, One, 0)
                IN  /\ back = PathSum(ecfg.sbox, F, DOMAIN F, pout)
                    /\ permute(ecfg.layer, pout) \in DOMAIN pool_new
                    /\ back = pool_new[permute(ecfg.layer, pout)]

\* a round over a frontier with different values is filled, and a candidate
\* holds the sum of several paths
C10_Witness ==
    /\ epc = "swap" /\ eround >= 1
    /\ \E i, j \in 1 .. Len(pool_cur) : pool_cur[i][2] # pool_cur[j][2]
    /\ \E key \in DOMAIN pool_new : pool_new[key][1] > 1

\* ------------------------------------------------------------------------
\* The distributed mask-set engine (PRESENT-MPI/main.cpp)
\* ------------------------------------------------------------------------
\* the largest world_size that is tried
MaxWorld == 3

HPC_ROOT == 0
HPC_CHILDREN == 2

\* sizeof(elemT) / sizeof(int): what MPI_Get_count(&status, MPI_INT, &cnt)
\* counts per pair received
ELEM_INTS == 4

\* the values of Limit that are tried (the program has 1 << 22)
HLimits == {MaxLimit, 8 * MaxLimit}

HConfigs == [P : 1 .. MaxWorld, alpha : Alphas, limit : HLimits, sbox : {"gift"},
             layer : {"present"}, ndebug : BOOLEAN, eager : BOOLEAN]

\* the number of ranks rank * HPC_CHILDREN + n, n = 1 .. HPC_CHILDREN, below
\* world_size
ChildrenOf(world_rank, world_size) ==
    Cardinality({n \in 1 .. HPC_CHILDREN : world_rank * HPC_CHILDREN + n < world_size})

\* the rank the flat array is sent to
ParentOf(world_rank) == world_rank \div HPC_CHILDREN

\* scatter work (based on rank)
WorkSlice(flat_size, world_size) == flat_size \div world_size

WorkOffset(flat_size, world_size, world_rank) ==
    WorkSlice(flat_size, world_size) * world_rank

\* the slice length without the remainder of the last rank
WorkElementsNoRest(flat_size, world_size, world_rank) == flat_size \div world_size

WorkElements(flat_size, world_size, world_rank) ==
    (flat_size \div world_size)
        + (IF world_rank = world_size - 1 THEN flat_size % world_size ELSE 0)

\* an entry of the buffer calloc returns
ZeroElem == <<{}, Zero>>

\* the buffer after data was written to its start
WriteBuf(buf, data) ==
    [i \in 1 .. Len(buf) |-> IF i <= Len(data) THEN data[i] ELSE buf[i]]

\* flatten: the array of the entries popped, the collector is left empty
\* (the heap of each iteration is bound once, as h)
RECURSIVE flatten(_, _)
flatten(fitness_, Limit) ==
    CHOOSE dst \in {IF h = << >> \/ Limit = 0 THEN << >>
                    ELSE <<HeapTop(h)>> \o flatten(HeapPop(h), Limit - 1) :
                        h \in {fitness_}} : TRUE

EmptyCollector == [members |-> {}, fitness |-> << >>]

\* for (n = 0; n < cnt; n++) collector.add(flat_buff[n]); the collector of
\* each iteration is bound once, as cv
RECURSIVE AddAll(_, _, _, _)
AddAll(c, elems, n, Limit) ==
    IF n > Len(elems) THEN c
    ELSE CHOOSE r \in {AddAll(add(cv.members, cv.fitness, elems[n], Limit),
                              elems, n + 1, Limit) : cv \in {c}} : TRUE

\* fill at the leaf pout: membership test, back_propergate, the test against
\* TINY and add
OfferElp(cv, pout, elp, Limit) ==
    IF DLt(elp, TINY) THEN cv ELSE add(cv.members, cv.fitness, <<pout, elp>>, Limit)

OfferLeaf(cv, name, F, pout, Limit) ==
    IF pout \in cv.members THEN cv
    ELSE CHOOSE r \in {OfferElp(cv, pout, elp, Limit) :
                          elp \in {back_propergate(name, F, pout, {}, One, 0)}} : TRUE

\* fill for the mask pin from its i-th leaf on
RECURSIVE FillSerial(_, _, _, _, _, _)
FillSerial(c, name, F, pin, i, Limit) ==
    IF i > Len(LeavesTable[name][pin]) THEN c
    ELSE CHOOSE r \in {FillSerial(OfferLeaf(cv, name, F, LeavesTable[name][pin][i], Limit),
                                  name, F, pin, i + 1, Limit) : cv \in {c}} : TRUE

\* collect_round on a slice, the tasks run one after the other
RECURSIVE CollectSlice(_, _, _, _, _, _)
CollectSlice(c, name, F, slice, n, Limit) ==
    IF n > Len(slice) THEN c
    ELSE CHOOSE r \in {CollectSlice(FillSerial(cv, name, F, slice[n][1], 1, Limit),
                                    name, F, slice, n + 1, Limit) : cv \in {c}} : TRUE

\* masks.clear(); masks.insert(flat_buff[n]) for n < flat_size
RECURSIVE RebuildMasks(_, _)
RebuildMasks(buf, n) ==
    IF n = 0 THEN << >> ELSE MapInsert(RebuildMasks(buf, n - 1), buf[n])

\* flat_buff[n].first = permute(flat_buff[n].first) for n < flat_size
PermuteBuf(layer, buf, flat_size) ==
    [i \in 1 .. Len(buf) |->
        IF i <= flat_size THEN <<permute(layer, buf[i][1]), buf[i][2]>> ELSE buf[i]]

Ranks == 0 .. (hcfg.P - 1)

NodeInit(k) ==
    [pc |-> IF k = HPC_ROOT THEN "first" ELSE "top", round_num |-> 1,
     collector |-> EmptyCollector,
     flat_buff |-> [i \in 1 .. hcfg.limit |-> ZeroElem], flat_size |-> 0,
     masks |-> << >>, recv |-> 0, heard |-> {}]

HPCInit ==
    /\ hcfg \in HConfigs
    /\ node = [k \in Ranks |-> NodeInit(k)]
    /\ chan = {}
    /\ lastMerge = << >>
    /\ BBIdle
    /\ MSIdle
    /\ ENIdle
    /\ LATIdle
    /\ RECTIdle
    /\ DBGIdle
    /\ PERMIdle

\* what a read past the end of flat_buff may return
Garbage == {ZeroElem, <<{0}, One>>}

\* the first round on the root, before collect_round: masks holds alpha only
HFirstRound ==
    /\ node[HPC_ROOT].pc = "first"
    /\ node' = [node EXCEPT ![HPC_ROOT] =
                   [@ EXCEPT !.pc = "first_round", !.masks = <<<<hcfg.alpha, One>>>>]]
    /\ UNCHANGED <<hcfg, chan, lastMerge>>
    /\ UNCHANGED <<bbVars, msVars, enVars, latVars, rectVars, dbgVars, permVars>>

\* the head of the round loop up to MPI_Barrier; the root permutes flat_buff
HRoundTop(k) ==
    /\ node[k].pc = "top" /\ node[k].round_num < EngineRounds
    /\ node' = [node EXCEPT ![k] =
                   [@ EXCEPT !.pc = "barrier",
                             !.flat_buff = IF k = HPC_ROOT
                                           THEN PermuteBuf(hcfg.layer, @, node[k].flat_size)
                                           ELSE @]]
    /\ UNCHANGED <<hcfg, chan, lastMerge>>
    /\ UNCHANGED <<bbVars, msVars, enVars, latVars, rectVars, dbgVars, permVars>>

\* the round loop is over: MPI_Finalize
HFinalize(k) ==
    /\ node[k].pc = "top" /\ node[k].round_num = EngineRounds
    /\ node' = [node EXCEPT ![k].pc = "done"]
    /\ UNCHANGED <<hcfg, chan, lastMerge>>
    /\ UNCHANGED <<bbVars, msVars, enVars, latVars, rectVars, dbgVars, permVars>>

\* what rank k holds after the barrier, the two broadcasts and the rebuild of
\* masks
AfterBcast(k, size, buf, map) ==
    [node[k] EXCEPT !.flat_size = size, !.flat_buff = buf, !.masks = map,
                    !.pc = IF ~ hcfg.ndebug /\ ~ (Len(map) = size /\ Len(map) <= hcfg.limit)
                           THEN "abort" ELSE "work"]

\* every rank has reached MPI_Barrier: the broadcasts from the root
HBarrier ==
    /\ \A k \in Ranks : node[k].pc = "barrier"
    /\ \E size \in {node[HPC_ROOT].flat_size} :
         \E data \in {SubSeq(node[HPC_ROOT].flat_buff, 1, size)} :
           \E map \in {RebuildMasks(data, size)} :
             node' = [k \in Ranks |->
                         AfterBcast(k, size, WriteBuf(node[k].flat_buff, data), map)]
    /\ UNCHANGED <<hcfg, chan, lastMerge>>
    /\ UNCHANGED <<bbVars, msVars, enVars, latVars, rectVars, dbgVars, permVars>>

\* the slice of rank k
SliceOf(k) ==
    SubSeq(node[k].flat_buff,
           WorkOffset(node[k].flat_size, hcfg.P, k) + 1,
           WorkOffset(node[k].flat_size, hcfg.P, k)
               + WorkElements(node[k].flat_size, hcfg.P, k))

\* collect_round: on the slice of the rank, or on alpha alone in the first
\* round of the root
HWork(k) ==
    /\ node[k].pc \in {"first_round", "work"}
    /\ \E F \in {MapOf(node[k].masks)} :
         \E slice \in {IF node[k].pc = "work" THEN SliceOf(k) ELSE node[k].masks} :
           \E c \in {CollectSlice(node[k].collector, hcfg.sbox, F, slice, 1, hcfg.limit)} :
             node' = [node EXCEPT ![k] =
                         [@ EXCEPT !.pc = IF @ = "work" THEN "gather" ELSE "first_flatten",
                                   !.recv = 0, !.heard = {k}, !.collector = c]]
    /\ UNCHANGED <<hcfg, chan, lastMerge>>
    /\ UNCHANGED <<bbVars, msVars, enVars, latVars, rectVars, dbgVars, permVars>>

\* MPI_Get_count(&status, MPI_INT, &cnt) for the message m
Cnt(m) == ELEM_INTS * Len(m.data)

\* one iteration of the gather loop: MPI_Recv from any source, then the loop
\* of cnt calls of add; a read past the end of flat_buff returns g
HRecv(k) ==
    /\ node[k].pc = "gather" /\ node[k].recv < ChildrenOf(k, hcfg.P)
    /\ \E m \in chan : \E g \in Garbage :
        /\ m.dst = k
        /\ hcfg.ndebug \/ (Cnt(m) > 0 /\ Cnt(m) <= hcfg.limit)
        /\ LET buf == WriteBuf(node[k].flat_buff, m.data)
               offered == [i \in 1 .. Cnt(m) |-> IF i <= Len(buf) THEN buf[i] ELSE g]
           IN  /\ node' = [node EXCEPT ![k] =
                              [@ EXCEPT !.flat_buff = buf, !.recv = @ + 1,
                                        !.heard = @ \cup m.heard,
                                        !.collector = AddAll(@, offered, 1, hcfg.limit)]]
               /\ lastMerge' = [rank |-> k, src |-> m.src, sent |-> m.data,
                                offered |-> offered]
        /\ chan' = chan \ {m}
    /\ UNCHANGED hcfg
    /\ UNCHANGED <<bbVars, msVars, enVars, latVars, rectVars, dbgVars, permVars>>

\* the program stops in the gather loop: an assertion on cnt fails in a build
\* with assertions, or the read past the end of flat_buff faults
HRecvAbort(k) ==
    /\ node[k].pc = "gather" /\ node[k].recv < ChildrenOf(k, hcfg.P)
    /\ \E m \in chan :
        /\ m.dst = k
        /\ IF hcfg.ndebug THEN Cnt(m) > hcfg.limit
           ELSE ~ (Cnt(m) > 0 /\ Cnt(m) <= hcfg.limit)
        /\ node' = [node EXCEPT ![k] =
                       [@ EXCEPT !.pc = "abort",
                                 !.flat_buff = WriteBuf(node[k].flat_buff, m.data)]]
        /\ chan' = chan \ {m}
    /\ UNCHANGED <<hcfg, lastMerge>>
    /\ UNCHANGED <<bbVars, msVars, enVars, latVars, rectVars, dbgVars, permVars>>

\* the gather loop (or the first round of the root) is over: flatten; after a
\* gather the root goes to the next round
HFlatten(k) ==
    /\ \/ node[k].pc = "gather" /\ node[k].recv = ChildrenOf(k, hcfg.P)
       \/ node[k].pc = "first_flatten"
    /\ \E flat \in {flatten(node[k].collector.fitness, hcfg.limit)} :
           node' = [node EXCEPT ![k] =
                       [@ EXCEPT !.collector = EmptyCollector,
                                 !.flat_buff = WriteBuf(@, flat),
                                 !.flat_size = Len(flat),
                                 !.pc = IF k = HPC_ROOT THEN "top" ELSE "send",
                                 !.round_num = IF k = HPC_ROOT /\ node[k].pc = "gather"
                                               THEN @ + 1 ELSE @]]
    /\ UNCHANGED <<hcfg, chan, lastMerge>>
    /\ UNCHANGED <<bbVars, msVars, enVars, latVars, rectVars, dbgVars, permVars>>

\* MPI_Send to the parent: it returns at once if the library buffers the
\* message, or when the message was received
HSend(k) ==
    /\ node[k].pc = "send"
    /\ chan' = chan \cup {[src |-> k, dst |-> ParentOf(k), round_num |-> node[k].round_num,
                           data |-> SubSeq(node[k].flat_buff, 1, node[k].flat_size),
                           heard |-> node[k].heard]}
    /\ node' = [node EXCEPT ![k] =
                   [@ EXCEPT !.pc = IF hcfg.eager THEN "top" ELSE "sending",
                             !.round_num = IF hcfg.eager THEN @ + 1 ELSE @]]
    /\ UNCHANGED <<hcfg, lastMerge>>
    /\ UNCHANGED <<bbVars, msVars, enVars, latVars, rectVars, dbgVars, permVars>>

\* MPI_Send returns: the message was received
HSendDone(k) ==
    /\ node[k].pc = "sending"
    /\ \A m \in chan : m.src # k
    /\ node' = [node EXCEPT ![k] = [@ EXCEPT !.pc = "top", !.round_num = @ + 1]]
    /\ UNCHANGED <<hcfg, chan, lastMerge>>
    /\ UNCHANGED <<bbVars, msVars, enVars, latVars, rectVars, dbgVars, permVars>>

HPCNext ==
    \/ HFirstRound
    \/ \E k \in Ranks : HRoundTop(k)
    \/ \E k \in Ranks : HFinalize(k)
    \/ HBarrier
    \/ \E k \in Ranks : HWork(k)
    \/ \E k \in Ranks : HRecv(k)
    \/ \E k \in Ranks : HRecvAbort(k)
    \/ \E k \in Ranks : HFlatten(k)
    \/ \E k \in Ranks : HSend(k)
    \/ \E k \in Ranks : HSendDone(k)

\* a run of the distributed engine
SpecHPC == HPCInit /\ [][HPCNext]_vars

\* ---------------------------------------------------------------------
\* Claims on the distributed engine

\* rank k waits in MPI_Recv: no message for it is in flight
BlockedInRecv(k) ==
    /\ node[k].pc = "gather" /\ node[k].recv < ChildrenOf(k, hcfg.P)
    /\ \A m \in chan : m.dst # k

\* rank k waits in MPI_Send: its message was not received
BlockedInSend(k) == node[k].pc = "sending" /\ \E m \in chan : m.src = k

\* rank k waits in MPI_Barrier for a rank that has not reached it
BlockedInBarrier(k) == node[k].pc = "barrier" /\ \E j \in Ranks : node[j].pc # "barrier"

\* no rank can take a step: each has returned from main, has stopped on an
\* assertion or a fault, or waits in a call that no other rank will complete
Quiescent ==
    \A k \in Ranks : \/ node[k].pc \in {"done", "abort"}
                     \/ BlockedInRecv(k) \/ BlockedInSend(k) \/ BlockedInBarrier(k)

\* C11: for every world size no node blocks for ever in a receive or a send
\* (when no rank can take a step any more and none has stopped on an
\* assertion or a fault, no rank waits in MPI_Recv or in MPI_Send), and when
\* the root has finished the receive-and-merge loop of a round it holds the
\* merge of the collectors of all P nodes
C11_NoNodeBlocks ==
    /\ (Quiescent /\ \A k \in Ranks : node[k].pc # "abort")
           => \A k \in Ranks : ~ BlockedInRecv(k) /\ ~ BlockedInSend(k)
    /\ (node[HPC_ROOT].pc = "gather" /\ node[HPC_ROOT].recv = ChildrenOf(HPC_ROOT, hcfg.P))
           => node[HPC_ROOT].heard = Ranks

\* a step is taken from a state that is not quiescent
StepsNotQuiescent == [][~ Quiescent]_vars
\* rank p counts rank k among its children (main.cpp:60-64)
IsChildOf(k, p) == \E n \in 1 .. HPC_CHILDREN : k = p * HPC_CHILDREN + n

\* C12: every message a rank sends goes to the rank that counts the sender
\* among its children, and every message a rank has merged came from one of
\* its children
C12_SendsToParent ==
    /\ \A m \in chan : IsChildOf(m.src, m.dst)
    /\ lastMerge # << >> => IsChildOf(lastMerge.src, lastMerge.rank)
\* C13: the entries a parent offers to its collector through add after a
\* receive are exactly the pairs the child sent, in number and in value
C13_OffersWhatWasSent ==
    lastMerge # << >> => lastMerge.offered = lastMerge.sent
\* the indices of the slice of rank k of a frontier of N entries
SliceIdx(N, P, k) ==
    {i \in 0 .. (N - 1) : /\ WorkOffset(N, P, k) <= i
                          /\ i < WorkOffset(N, P, k) + WorkElements(N, P, k)}

\* the slices of a frontier of N entries among P ranks partition [0, N) as
\* the claim says
SlicesOK(N, P) ==
    /\ \A i, j \in 0 .. (P - 1) : i # j => SliceIdx(N, P, i) \cap SliceIdx(N, P, j) = {}
    /\ UNION {SliceIdx(N, P, i) : i \in 0 .. (P - 1)} = 0 .. (N - 1)
    /\ \A i \in 0 .. (P - 1) :
          /\ WorkOffset(N, P, i) = i * (N \div P)
          /\ WorkElements(N, P, i) = (N \div P) + (IF i = P - 1 THEN N % P ELSE 0)
          /\ WorkOffset(N, P, i) + WorkElements(N, P, i) <= N

\* C14: for every frontier size N up to the largest Limit and every world
\* size P the slices of the ranks are pairwise disjoint, lie inside [0, N)
\* and cover it; rank k starts at k * floor(N / P) and holds floor(N / P)
\* entries, the last rank N mod P more; and the slice a rank passes to
\* collect_round is that range of its flat_buff
C14_SlicesPartition ==
    /\ \A N \in 0 .. (8 * MaxLimit) : \A P \in 1 .. MaxWorld : SlicesOK(N, P)
    /\ \A k \in Ranks : node[k].pc = "work" =>
          /\ SlicesOK(node[k].flat_size, hcfg.P)
          /\ Len(SliceOf(k)) = WorkElements(node[k].flat_size, hcfg.P, k)
          /\ \A i \in 1 .. Len(SliceOf(k)) :
                SliceOf(k)[i] = node[k].flat_buff[WorkOffset(node[k].flat_size, hcfg.P, k) + i]

\* a rank about to work on a frontier that does not divide evenly
C14_Witness ==
    /\ hcfg.P = 3
    /\ node[2].pc = "work" /\ node[2].flat_size % 3 # 0 /\ node[2].flat_size > 3
\* ---------------------------------------------------------------------
\* Claims on the weight-mode expander and the direct accumulation

\* the active slots of pin
ActiveBoxes(pin) == {b \in 0 .. (Sboxes - 1) : ValIn(pin, b) # 0}

\* the combinations of one record of the table per active slot of pin, each
\* as the index of the record in the bucket of the slot (a bucket holds at
\* most one record per output)
Choices(name, pin) ==
    {ch \in [ActiveBoxes(pin) -> 1 .. CIPHER_SBOX_VALUES] :
        \A b \in ActiveBoxes(pin) : ch[b] <= Len(forward_approx(name)[ValIn(pin, b)])}

\* the OR of the outputs of the chosen records, each shifted into its slot
ChoiceOut(name, pin, ch) ==
    UNION {Shl(Bits(forward_approx(name)[ValIn(pin, b)][ch[b]].output), b * CIPHER_SBOX_SIZE) :
              b \in ActiveBoxes(pin)}

\* value times the product of corr of the chosen records
RECURSIVE ChoiceAmount(_, _, _, _, _)
ChoiceAmount(name, pin, ch, value, box) ==
    IF box = Sboxes THEN value
    ELSE IF ValIn(pin, box) = 0 THEN ChoiceAmount(name, pin, ch, value, box + 1)
    ELSE DMul(forward_approx(name)[ValIn(pin, box)][ch[box]].corr,
              ChoiceAmount(name, pin, ch, value, box + 1))

\* the sum of the amounts of the combinations in S
RECURSIVE SumChoices(_, _, _, _)
SumChoices(name, pin, S, value) ==
    IF S = {} THEN Zero
    ELSE LET ch == CHOOSE x \in S : TRUE
         IN  DAdd(ChoiceAmount(name, pin, ch, value, 0),
                  SumChoices(name, pin, S \ {ch}, value))

\* pool after one contribution per combination was added to it, or pool
\* itself when pin has more than max_weight active slots
ExpectedFill(pool, c, value, pin, max_weight) ==
    IF Cardinality(ActiveBoxes(pin)) > max_weight THEN pool
    ELSE LET all  == Choices(c.sbox, pin)
             key(ch) == permute(c.layer, ChoiceOut(c.sbox, pin, ch))
             keys == {key(ch) : ch \in all}
         IN  [k \in DOMAIN pool \cup keys |->
                 IF k \notin keys THEN pool[k]
                 ELSE DAdd(IF k \in DOMAIN pool THEN pool[k] ELSE Zero,
                           SumChoices(c.sbox, pin, {ch \in all : key(ch) = k}, value))]

\* C15: every call fill(pool_new, LAT, value, pin, 0, max_weight, 0, 0) of
\* a run returns, and leaves in pool_new one contribution per combination of
\* one record per active slot of pin, at the permuted OR of the outputs and
\* of amount value times the product of corr, and nothing else; pool_new is
\* unchanged when pin has more than max_weight active slots
C15_FillContributions ==
    (epc = "fill" /\ pcs < Len(pool_cur)) =>
        /\ ~ Filled.aborted
        /\ Filled.pool = ExpectedFill(pool_new, ecfg, pool_cur[pcs + 1][2],
                                      pool_cur[pcs + 1][1], ecfg.hw)
\* the entries of the frontier whose mask has at most hw active slots
WithinCap(F, hw) ==
    Fix([m \in {k \in DOMAIN F : nibble_weight(k) <= hw} |-> F[m]])

\* C16: a round of the direct accumulation is completed, and then for every
\* mask pout the new pool holds under permute(pout) the sum, over the masks m
\* of the frontier with at most hw active slots, of F[m] times the product of
\* the ELPs of the S-box approximations from m to pout; a mask that no
\* choice reaches is absent from the new pool
C16_RoundAccumulates ==
    /\ epc # "abort"
    /\ epc = "swap" =>
          LET F == WithinCap(MapOf(pool_cur), ecfg.hw)
          IN  \A pout \in AllMasks :
                  LET sum == PathSum(ecfg.sbox, F, DOMAIN F, pout)
                  IN  IF sum = Zero
                      THEN permute(ecfg.layer, pout) \notin DOMAIN pool_new
                      ELSE /\ permute(ecfg.layer, pout) \in DOMAIN pool_new
                           /\ pool_new[permute(ecfg.layer, pout)] = sum
\* C17: the frontier before the first round holds exactly one entry, a
\* non-zero mask (alpha) with the value 1
C17_StartsFromAlpha ==
    (eround = 0 /\ epc \in {"fill", "swap", "abort"}) =>
        /\ Len(pool_cur) = 1
        /\ pool_cur[1][1] # {}
        /\ pool_cur[1][2] = One
\* C18: in every round of the mask-set engine the collector (heap and member
\* set) is empty when the tasks of the round are dispatched, the current
\* frontier is not modified while the tasks run, every entry taken from the
\* heap at the end of the round makes one entry of the new frontier, and
\* when the round is over the collector (heap and member set) is empty again
C18_DoubleBuffer ==
    [][/\ (mpc = "round" /\ mpc' = "tasks") => (fitness' = << >> /\ members' = {})
       /\ (mpc = "tasks" /\ mpc' = "tasks") => masks' = masks
       /\ (mpc = "drain" /\ mpc' = "drain") =>
              /\ Len(out') = Len(out) + 1
              /\ out'[Len(out')] = <<IF mcfg.variant = "present"
                                     THEN permute(mcfg.layer, HeapTop(fitness)[1])
                                     ELSE HeapTop(fitness)[1],
                                     HeapTop(fitness)[2]>>
       /\ (mpc = "drain" /\ mpc' = "round") => (fitness' = << >> /\ members' = {})]_vars
\* ---------------------------------------------------------------------
\* approximate_sbox, step by step

EmptyBuckets == [n \in 0 .. (CIPHER_SBOX_VALUES - 1) |-> << >>]

\* the state at the call of approximate_sbox; the other programs are not
\* part of the run
LATInit ==
    /\ lsbox \in SboxNames
    /\ lpc = "enumerate"
    /\ lparin = 0 /\ lparout = 0
    /\ lat_forward = EmptyBuckets /\ lat_backward = EmptyBuckets
    /\ ln = 0
    /\ BBIdle
    /\ MSIdle
    /\ ENIdle
    /\ HPCIdle
    /\ RECTIdle
    /\ DBGIdle
    /\ PERMIdle

\* one iteration of the loop over parout: count the hits, push one record to
\* forward_approx[parin] and one to backward_approx[parout]
LatPush ==
    /\ lpc = "enumerate"
    /\ LET c == Corr(SBOX(lsbox), lparin, lparout)
       IN  /\ lat_forward' = [lat_forward EXCEPT ![lparin] =
                                  Append(@, Approx(lparin, lparout, c))]
           /\ lat_backward' = [lat_backward EXCEPT ![lparout] =
                                   Append(@, Approx(lparout, lparin, c))]
    /\ lparout' = (lparout + 1) % CIPHER_SBOX_VALUES
    /\ lparin' = IF lparout = CIPHER_SBOX_VALUES - 1 THEN lparin + 1 ELSE lparin
    /\ lpc' = IF lparout = CIPHER_SBOX_VALUES - 1 /\ lparin = CIPHER_SBOX_VALUES - 1
              THEN "sort" ELSE "enumerate"
    /\ UNCHANGED <<lsbox, ln>>
    /\ UNCHANGED <<bbVars, msVars, enVars, hpcVars, rectVars, dbgVars, permVars>>

\* one iteration of the loop over n: vsort and vremove on both buckets
LatSortRemove ==
    /\ lpc = "sort"
    /\ lat_forward' = [lat_forward EXCEPT ![ln] = vremove(vsort(@))]
    /\ lat_backward' = [lat_backward EXCEPT ![ln] = vremove(vsort(@))]
    /\ ln' = ln + 1
    /\ lpc' = IF ln = CIPHER_SBOX_VALUES - 1 THEN "done" ELSE "sort"
    /\ UNCHANGED <<lsbox, lparin, lparout>>
    /\ UNCHANGED <<bbVars, msVars, enVars, hpcVars, rectVars, dbgVars, permVars>>

\* main: make_approximations_elp(forward_approx)
LatElpForward ==
    /\ lpc = "done"
    /\ lat_forward' = make_approximations_elp(lat_forward)
    /\ lpc' = "elp_forward"
    /\ UNCHANGED <<lsbox, lparin, lparout, lat_backward, ln>>
    /\ UNCHANGED <<bbVars, msVars, enVars, hpcVars, rectVars, dbgVars, permVars>>

\* main: make_approximations_elp(backward_approx)
LatElpBackward ==
    /\ lpc = "elp_forward"
    /\ lat_backward' = make_approximations_elp(lat_backward)
    /\ lpc' = "elp"
    /\ UNCHANGED <<lsbox, lparin, lparout, lat_forward, ln>>
    /\ UNCHANGED <<bbVars, msVars, enVars, hpcVars, rectVars, dbgVars, permVars>>

LATNext ==
    \/ LatPush
    \/ LatSortRemove
    \/ LatElpForward
    \/ LatElpBackward

\* a run of approximate_sbox and of the two calls of make_approximations_elp
\* that follow it in main
SpecLAT == LATInit /\ [][LATNext]_vars
\* hits as the claim counts them: the x with parity(alpha & x) equal to
\* parity(beta & SBOX[x])
ClaimHits(S, alpha, beta) ==
    Cardinality({x \in 0 .. (CIPHER_SBOX_VALUES - 1) :
        Cardinality(Bits(alpha) \cap Bits(x)) % 2
            = Cardinality(Bits(beta) \cap Bits(S[x + 1])) % 2})

\* c = 2 * hits / 16 - 1
ClaimCorr(S, alpha, beta) == Norm(2 * ClaimHits(S, alpha, beta) - 16, 4)

\* the record {i, o, popcount(o), c}
ClaimRecord(i, o, c) == [input |-> i, output |-> o, weight |-> Cardinality(Bits(o)), corr |-> c]

\* how often the bucket v holds the record rec, and how many of its records
\* have the output o
Occurrences(v, rec) == Cardinality({i \in 1 .. Len(v) : v[i] = rec})
WithOutput(v, o) == Cardinality({i \in 1 .. Len(v) : v[i].output = o})

\* the records of the bucket v
RecordsOf(v) == {v[i] : i \in 1 .. Len(v)}

\* C19: after approximate_sbox, for every alpha and beta forward[alpha] holds
\* the record {alpha, beta, popcount(beta), c}, c = 2 * hits / 16 - 1, exactly
\* once if |c| >= TINY and holds no record with output beta otherwise, and
\* forward[alpha] holds {alpha, beta, popcount(beta), c} if and only if
\* backward[beta] holds {beta, alpha, popcount(alpha), c}
C19_TableComplete ==
    lpc = "done" =>
        \A alpha, beta \in 0 .. (CIPHER_SBOX_VALUES - 1) :
            LET c   == ClaimCorr(SBOX(lsbox), alpha, beta)
                rec == ClaimRecord(alpha, beta, c)
                mir == ClaimRecord(beta, alpha, c)
                k   == IF DLt(DAbs(c), TINY) THEN 0 ELSE 1
            IN  /\ Occurrences(lat_forward[alpha], rec) = k
                /\ WithOutput(lat_forward[alpha], beta) = k
                /\ Occurrences(lat_backward[beta], mir) = k
                /\ WithOutput(lat_backward[beta], alpha) = k
                /\ \A r \in RecordsOf(lat_forward[alpha]) :
                      ClaimRecord(r.output, r.input, r.corr) \in RecordsOf(lat_backward[r.output])
                /\ \A r \in RecordsOf(lat_backward[beta]) :
                      ClaimRecord(r.output, r.input, r.corr) \in RecordsOf(lat_forward[r.output])

\* approximate_sbox has returned for the GIFT S-box: forward[1] holds ten of
\* the sixteen records, backward[1] holds other outputs than forward[1]
C19_Witness ==
    /\ lpc = "done" /\ lsbox = "gift"
    /\ Len(lat_forward[1]) = 10
    /\ {r.output : r \in RecordsOf(lat_forward[1])} # {r.output : r \in RecordsOf(lat_backward[1])}

\* C20: after approximate_sbox (and for every bucket the loop over n has
\* passed) forward[n] and backward[n] are ordered by |corr| non-increasing,
\* every record of bucket n has input = n, and no record has |corr| < TINY
C20_BucketsSorted ==
    \A n \in 0 .. (CIPHER_SBOX_VALUES - 1) :
        (lpc = "done" \/ (lpc = "sort" /\ n < ln)) =>
            \A v \in {lat_forward[n], lat_backward[n]} :
                /\ \A i, j \in 1 .. Len(v) :
                      i < j => ~ DLt(DAbs(v[i].corr), DAbs(v[j].corr))
                /\ \A i \in 1 .. Len(v) : v[i].input = n /\ ~ DLt(DAbs(v[i].corr), TINY)

\* approximate_sbox has returned with a bucket that holds records of
\* different |corr| and records of equal |corr|, of both signs
C20_Witness ==
    /\ lpc = "done"
    /\ \E n \in 1 .. (CIPHER_SBOX_VALUES - 1) :
         \E i, j, k \in 1 .. Len(lat_forward[n]) :
            /\ i < j /\ j < k
            /\ DAbs(lat_forward[n][i].corr) = DAbs(lat_forward[n][j].corr)
            /\ lat_forward[n][i].corr # lat_forward[n][j].corr
            /\ DLt(DAbs(lat_forward[n][k].corr), DAbs(lat_forward[n][j].corr))

\* ---------------------------------------------------------------------
\* the permutations the sum of squares is computed for besides the S-box of
\* the run: every S-box of the repository with its table rotated by k places
\* and j added to its entries
PermFamily ==
    {[i \in 1 .. CIPHER_SBOX_VALUES |->
        (SBOX(name)[((i - 1 + k) % CIPHER_SBOX_VALUES) + 1] + j) % CIPHER_SBOX_VALUES] :
            name \in SboxNames, k \in 0 .. (CIPHER_SBOX_VALUES - 1), j \in {0, 5}}

IsPermutation(S) == {S[i] : i \in 1 .. CIPHER_SBOX_VALUES} = 0 .. (CIPHER_SBOX_VALUES - 1)

\* the sum over beta < k of (2 * hits(alpha, beta) - 16)^2
RECURSIVE SumSq(_, _, _)
SumSq(S, alpha, k) ==
    IF k = 0 THEN 0
    ELSE SumSq(S, alpha, k - 1)
         + (2 * ClaimHits(S, alpha, k - 1) - 16) * (2 * ClaimHits(S, alpha, k - 1) - 16)

\* the sum of the corr fields of the first k records of the bucket v
RECURSIVE SumCorr(_, _)
SumCorr(v, k) == IF k = 0 THEN Zero ELSE DAdd(SumCorr(v, k - 1), v[k].corr)

\* C21: for a 4-bit S-box that is a permutation and every alpha, the sum over
\* beta of (2 * hits(alpha, beta) - 16)^2 is 256, and after pruning and
\* make_approximations_elp the corr values of forward[alpha] sum to 1
C21_Parseval ==
    /\ lpc \in {"elp_forward", "elp"} =>
           \A alpha \in 0 .. (CIPHER_SBOX_VALUES - 1) :
               /\ IsPermutation(SBOX(lsbox))
               /\ SumSq(SBOX(lsbox), alpha, CIPHER_SBOX_VALUES) = 256
               /\ SumCorr(lat_forward[alpha], Len(lat_forward[alpha])) = One
    /\ lpc = "elp" =>
           \A S \in PermFamily : \A alpha \in 0 .. (CIPHER_SBOX_VALUES - 1) :
               IsPermutation(S) => SumSq(S, alpha, CIPHER_SBOX_VALUES) = 256

\* both tables were squared; forward[1] of the GIFT S-box was pruned to ten
\* records, some of ELP 1/16 and some of ELP 1/4
C21_Witness ==
    /\ lpc = "elp" /\ lsbox = "gift"
    /\ Len(lat_forward[1]) = 10
    /\ \E i, j \in 1 .. Len(lat_forward[1]) :
          lat_forward[1][i].corr = <<1, 2>> /\ lat_forward[1][j].corr = <<1, 4>>

\* ---------------------------------------------------------------------
\* the slots of a mask that hold a non-zero nibble
ActiveSlots(x) == {b \in 0 .. (Sboxes - 1) : ValIn(x, b) # 0}

\* the mask the linear layer sends to y
InvPermute(layer, y) == {i \in 0 .. (CIPHER_SIZE - 1) : PERM(layer)[i] \in y}

\* the output of the S-box layer held in pout: branch-bound-faster ORs the
\* records of approx_local, whose outputs went through the linear layer
SboxOut(c, pout) == IF c.variant = "faster" THEN InvPermute(c.layer, pout) ELSE pout

\* the correlations of the zero masks, and the buckets of the table
ZeroMasksOK(name) ==
    /\ IsPermutation(SBOX(name))
    /\ ClaimCorr(SBOX(name), 0, 0) = One
    /\ \A a \in 1 .. (CIPHER_SBOX_VALUES - 1) :
          ClaimCorr(SBOX(name), a, 0) = Zero /\ ClaimCorr(SBOX(name), 0, a) = Zero
    /\ forward_approx(name)[0] = <<ClaimRecord(0, 0, One)>>
    /\ backward_approx(name)[0] = <<ClaimRecord(0, 0, One)>>
    /\ \A n \in 1 .. (CIPHER_SBOX_VALUES - 1) :
          /\ WithOutput(forward_approx(name)[n], 0) = 0
          /\ WithOutput(backward_approx(name)[n], 0) = 0

\* fill of mask-search.cpp and fill of iterate.cpp without a cap, and
\* back_propergate towards every mask whose active slots are not those of pin
ExpandersKeepSlots(name, layer) ==
    \A pin \in AllMasks :
        LET leaves == FillLeaves(name, pin, {}, Sboxes, 0, 0)
            st     == fill([pool |-> << >>, aborted |-> FALSE],
                           [sbox |-> name, layer |-> layer, hw |-> Sboxes, ndebug |-> TRUE],
                           One, pin, {}, Sboxes, 0, 0)
            others == {q \in AllMasks : ActiveSlots(q) # ActiveSlots(pin)}
        IN  /\ Len(leaves) > 0
            /\ \A i \in 1 .. Len(leaves) :
                  /\ ActiveSlots(leaves[i]) = ActiveSlots(pin)
                  /\ \A b \in ActiveSlots(pin) : ValIn(leaves[i], b) # 0
            /\ DOMAIN st.pool # {}
            /\ \A q \in DOMAIN st.pool : ActiveSlots(InvPermute(layer, q)) = ActiveSlots(pin)
            /\ back_propergate(name, [q \in others |-> One], pin, {}, One, 0) = Zero

\* C22: c(0,0) = 1, c(alpha,0) = 0 and c(0,beta) = 0 for the S-box of the
\* run; forward[0] and backward[0] hold the record 0 -> 0 only and no other
\* bucket holds a record with output 0; in every call of branch_bound_fill
\* the S-box outputs chosen so far fill exactly the active slots of pin that
\* were passed, so that at the end of the slot walk pout and pin have the same
\* active slots; the leaves of fill and the paths of back_propergate have the
\* active slots of their pin
C22_ActiveSlotsKept ==
    /\ (pc = "search" /\ stack = << >>) => ZeroMasksOK(cfg.sbox)
    /\ \A i \in 1 .. Len(stack) :
          ActiveSlots(SboxOut(cfg, stack[i].pout))
              = {b \in ActiveSlots(stack[i].pin) : b < stack[i].box}
    /\ (stack # << >> /\ TopBox = Sboxes) =>
          ActiveSlots(SboxOut(cfg, Top.pout)) = ActiveSlots(Top.pin)
    /\ pc = "done" => ExpandersKeepSlots(cfg.sbox, cfg.layer)

\* branch_bound_fill has walked every slot of a second-round mask with two
\* active slots
C22_Witness ==
    /\ stack # << >> /\ TopBox = Sboxes
    /\ Top.r = 1
    /\ Cardinality(ActiveSlots(Top.pin)) = 2
    /\ Cardinality(ActiveSlots(SboxOut(cfg, Top.pout))) = 2

\* ---------------------------------------------------------------------
\* the table new is the table old with every corr squared: same buckets, same
\* records in the same order with the same input, output and weight, corr
\* non-negative, 1 for a record of corr -1 or +1, each bucket ordered by corr
\* non-increasing
SquaredTable(old, new) ==
    \A n \in 0 .. (CIPHER_SBOX_VALUES - 1) :
        /\ Len(new[n]) = Len(old[n])
        /\ \A i \in 1 .. Len(old[n]) :
              LET a == old[n][i]
                  b == new[n][i]
              IN  /\ b.corr = Norm(a.corr[1] * a.corr[1], a.corr[2] + a.corr[2])
                  /\ ~ DLt(b.corr, Zero)
                  /\ (a.corr = One \/ a.corr = <<0 - 1, 0>>) => b.corr = One
                  /\ b.input = a.input /\ b.output = a.output /\ b.weight = a.weight
        /\ \A i, j \in 1 .. Len(new[n]) : i < j => ~ DLt(new[n][i].corr, new[n][j].corr)

\* C23: make_approximations_elp on a table produced by approximate_sbox
\* squares every corr (so corr >= 0, and -1 and +1 both become 1), leaves each
\* bucket ordered by corr non-increasing, and changes neither the input,
\* output and weight fields nor the number and the order of the records
C23_ElpSquares ==
    [][/\ lpc = "done" => SquaredTable(lat_forward, lat_forward')
       /\ lpc = "elp_forward" => SquaredTable(lat_backward, lat_backward')]_vars

\* make_approximations_elp has run on the forward table and not yet on the
\* backward table: a record of negative correlation in the backward table has
\* its mirror in the forward table with the square as corr
C23_Witness ==
    /\ lpc = "elp_forward"
    /\ \E n \in 1 .. (CIPHER_SBOX_VALUES - 1) : \E i \in 1 .. Len(lat_backward[n]) :
          /\ DLt(lat_backward[n][i].corr, Zero)
          /\ \E j \in 1 .. Len(lat_forward[lat_backward[n][i].output]) :
                LET f == lat_forward[lat_backward[n][i].output][j]
                IN  f.output = n /\ f.corr = DMul(lat_backward[n][i].corr, lat_backward[n][i].corr)

\* ------------------------------------------------------------------------
\* RECTANGLE (RECTANGLE/cipher.cpp, RECTANGLE/helper.cpp), at its full width:
\* a uint64_t is the set of its set bit positions 0..63, a uint16_t the set
\* of its set bit positions 0..15
\* ------------------------------------------------------------------------
RECT_ISBOX == <<9, 4, 15, 10, 14, 1, 0, 6, 12, 7, 3, 8, 2, 11, 5, 13>>

\* bits of a uint16_t, and of the uint64_t state
ROW_BITS   == 16
STATE_BITS == 64

\* sizeof(s) * 2: the columns SubColumn runs over
RECT_COLUMNS == 16

\* (s >> k) & 0xffff, stored to a uint16_t
RowOf(s, k) == {i - k : i \in {j \in s : j >= k /\ j < k + ROW_BITS}}

\* value >> k
Shr(value, k) == {i - k : i \in {j \in value : j >= k}}

\* _rotl on uint16_t without the bits that come round
rotl16_drop(value, shift) == {j \in Shl(value, shift) : j < ROW_BITS}

\* _rotl on uint16_t: the operands are promoted to int, the result is
\* converted to uint16_t
rotl16(value, shift) ==
    {j \in Shl(value, shift) \cup Shr(value, ROW_BITS - shift) : j < ROW_BITS}

\* _rotr on uint16_t
rotr16(value, shift) ==
    {j \in Shr(value, shift) \cup Shl(value, ROW_BITS - shift) : j < ROW_BITS}

ShiftRow(s) ==
    LET b0 == RowOf(s, 0)
        b1 == RowOf(s, 16)
        b2 == RowOf(s, 32)
        b3 == RowOf(s, 48)
    IN  Shl(Shl(Shl(rotl16(b3, 13), 16) \cup rotl16(b2, 12), 16) \cup rotl16(b1, 1), 16) \cup b0

InvShiftRow(s) ==
    LET b0 == RowOf(s, 0)
        b1 == RowOf(s, 16)
        b2 == RowOf(s, 32)
        b3 == RowOf(s, 48)
    IN  Shl(Shl(Shl(rotr16(b3, 13), 16) \cup rotr16(b2, 12), 16) \cup rotr16(b1, 1), 16) \cup b0

\* I of SubColumn: bit n of the rows 0, 1, 2, 3, the row 0 first
ColumnIn(s, n) ==
      (IF n      \in s THEN 8 ELSE 0) + (IF n + 16 \in s THEN 4 ELSE 0)
    + (IF n + 32 \in s THEN 2 ELSE 0) + (IF n + 48 \in s THEN 1 ELSE 0)

\* the bits SubColumn ORs into o for the column n
ColumnOut(O, n) ==
    {n + 48 : j \in Bits(O) \cap {0}} \cup {n + 32 : j \in Bits(O) \cap {1}}
        \cup {n + 16 : j \in Bits(O) \cap {2}} \cup {n : j \in Bits(O) \cap {3}}

\* the bits of O written from the row 0 upwards
ColumnOutUp(O, n) == {n + 16 * j : j \in Bits(O)}

SubColumnUp(s) ==
    UNION {ColumnOutUp(RECT_SBOX[ColumnIn(s, n) + 1], n) : n \in 0 .. (RECT_COLUMNS - 1)}

SubColumn(s) ==
    UNION {ColumnOut(RECT_SBOX[ColumnIn(s, n) + 1], n) : n \in 0 .. (RECT_COLUMNS - 1)}

InvSubColumn(s) ==
    UNION {ColumnOut(RECT_ISBOX[ColumnIn(s, n) + 1], n) : n \in 0 .. (RECT_COLUMNS - 1)}

\* the values the functions are run on: every value with at most RMaxBits
\* set bits, and every value whose column n holds v while the other columns
\* hold w
RMaxBits == 2

\* the number of functions applied in a row
RMaxOps == 2

RECURSIVE FewBits(_)
FewBits(k) ==
    IF k = 0 THEN {{}}
    ELSE FewBits(k - 1) \cup {m \cup {i} : m \in FewBits(k - 1), i \in 0 .. (STATE_BITS - 1)}

ColumnValues ==
    {UNION {ColumnOut(IF c = n THEN v ELSE w, c) : c \in 0 .. (RECT_COLUMNS - 1)} :
        n \in 0 .. (RECT_COLUMNS - 1), v \in 0 .. (CIPHER_SBOX_VALUES - 1), w \in {0, 9, 15}}

RInputs == FewBits(RMaxBits) \cup ColumnValues

\* auto I = randx(); the other programs are not part of the run
RECTInit ==
    /\ rin \in RInputs
    /\ rval = rin
    /\ rops = << >>
    /\ BBIdle
    /\ MSIdle
    /\ ENIdle
    /\ HPCIdle
    /\ LATIdle
    /\ DBGIdle
    /\ PERMIdle

RSubColumn ==
    /\ rops # <<"off">> /\ Len(rops) < RMaxOps
    /\ rval' = SubColumn(rval)
    /\ rops' = Append(rops, "SubColumn")
    /\ UNCHANGED rin
    /\ UNCHANGED <<bbVars, msVars, enVars, hpcVars, latVars, dbgVars, permVars>>

RInvSubColumn ==
    /\ rops # <<"off">> /\ Len(rops) < RMaxOps
    /\ rval' = InvSubColumn(rval)
    /\ rops' = Append(rops, "InvSubColumn")
    /\ UNCHANGED rin
    /\ UNCHANGED <<bbVars, msVars, enVars, hpcVars, latVars, dbgVars, permVars>>

RShiftRow ==
    /\ rops # <<"off">> /\ Len(rops) < RMaxOps
    /\ rval' = ShiftRow(rval)
    /\ rops' = Append(rops, "ShiftRow")
    /\ UNCHANGED rin
    /\ UNCHANGED <<bbVars, msVars, enVars, hpcVars, latVars, dbgVars, permVars>>

RInvShiftRow ==
    /\ rops # <<"off">> /\ Len(rops) < RMaxOps
    /\ rval' = InvShiftRow(rval)
    /\ rops' = Append(rops, "InvShiftRow")
    /\ UNCHANGED rin
    /\ UNCHANGED <<bbVars, msVars, enVars, hpcVars, latVars, dbgVars, permVars>>

RECTNext ==
    \/ RSubColumn
    \/ RInvSubColumn
    \/ RShiftRow
    \/ RInvShiftRow

\* runs of the cipher functions on the values of RInputs
SpecRECT == RECTInit /\ [][RECTNext]_vars

\* the column n of a state, the bit of row 0 first, and a 16-bit row rotated
\* left by k places
ColumnAt(s, n) == <<n \in s, n + 16 \in s, n + 32 \in s, n + 48 \in s>>
NibbleAt(v) == <<3 \in Bits(v), 2 \in Bits(v), 1 \in Bits(v), 0 \in Bits(v)>>
NibbleOf(col) == CHOOSE v \in 0 .. (CIPHER_SBOX_VALUES - 1) : NibbleAt(v) = col

\* C24: ISBOX[SBOX[i]] = i for every i; SubColumn replaces every column (bit
\* n of the four rows) by its image under SBOX, in the same column; and
\* InvSubColumn(SubColumn(x)) = x
C24_SubColumnRoundTrip ==
    /\ \A i \in 0 .. (CIPHER_SBOX_VALUES - 1) : RECT_ISBOX[RECT_SBOX[i + 1] + 1] = i
    /\ (Len(rops) >= 1 /\ rops[1] = "SubColumn") =>
          \A n \in 0 .. (RECT_COLUMNS - 1) :
              ColumnAt(SubColumn(rin), n) = NibbleAt(RECT_SBOX[NibbleOf(ColumnAt(rin, n)) + 1])
    /\ rops = <<"SubColumn">> => rval = SubColumn(rin)
    /\ rops = <<"SubColumn", "InvSubColumn">> => rval = rin

\* SubColumn and then InvSubColumn were applied to a value whose columns hold
\* different nibbles
C24_Witness ==
    /\ rops = <<"SubColumn", "InvSubColumn">>
    /\ \E n, k \in 0 .. (RECT_COLUMNS - 1) :
          /\ NibbleOf(ColumnAt(rin, n)) = 9
          /\ NibbleOf(ColumnAt(rin, k)) = 5
    /\ SubColumn(rin) # rin

\* the 16-bit row k of a state, and a row with every bit moved k places
\* towards the top, the bits that leave at the top coming back at the bottom
RowAt(s, k) == {i \in 0 .. (ROW_BITS - 1) : i + ROW_BITS * k \in s}
RotatedLeft(row, k) == {(i + k) % ROW_BITS : i \in row}

\* the left rotations of the rows 0, 1, 2, 3
RowShifts == <<0, 1, 12, 13>>

\* C25: ShiftRow rotates the rows 0, 1, 2, 3 of the state left by 0, 1, 12
\* and 13 bits, each inside its own row, and InvShiftRow(ShiftRow(x)) = x and
\* ShiftRow(InvShiftRow(x)) = x
C25_ShiftRowRoundTrip ==
    /\ rops = <<"ShiftRow">> =>
          /\ rval \subseteq 0 .. (STATE_BITS - 1)
          /\ \A k \in 0 .. 3 : RowAt(rval, k) = RotatedLeft(RowAt(rin, k), RowShifts[k + 1])
    /\ rops = <<"ShiftRow", "InvShiftRow">> => rval = rin
    /\ rops = <<"InvShiftRow", "ShiftRow">> => rval = rin

\* InvShiftRow and then ShiftRow were applied to a value with a bit at the
\* top of row 3 and a bit in row 1, which InvShiftRow moves
C25_Witness ==
    /\ rops = <<"InvShiftRow", "ShiftRow">>
    /\ 63 \in rin
    /\ RowAt(rin, 1) # {}
    /\ InvShiftRow(rin) # rin

\* ---------------------------------------------------------------------
\* the largest ELP of a record of the table with a non-zero input
MaxC2(name) ==
    MaxD(UNION {{forward_approx(name)[n][i].corr : i \in 1 .. Len(forward_approx(name)[n])} :
                    n \in 1 .. (CIPHER_SBOX_VALUES - 1)})

\* C26 as stated: when branch_bound_search terminates, bounds[r] >=
\* bounds[r-1] * max_c2 for every 1 <= r <= R, max_c2 the largest
\* single-S-box ELP of the table
C26_Original ==
    pc = "done" =>
        \A r \in 1 .. Rounds : DLeq(DMul(bounds[r - 1], MaxC2(cfg.sbox)), bounds[r])

\* C26: when branch_bound_search terminates, bounds[r] >= bounds[r-1] * 2^-8
\* for every 1 <= r <= R (the value bounds[r] is seeded with), and
\* bounds[r] <= bounds[r-1]
C26_SeedFloor ==
    pc = "done" =>
        \A r \in 1 .. Rounds :
            /\ DLeq(DMul(bounds[r - 1], <<1, 8>>), bounds[r])
            /\ DLeq(bounds[r], bounds[r - 1])

\* the search is over and some bound is below its predecessor times the
\* largest ELP of an S-box
C26_Witness ==
    /\ pc = "done"
    /\ \E r \in 1 .. Rounds : DLt(bounds[r], DMul(bounds[r - 1], MaxC2(cfg.sbox)))
    /\ \E r \in 1 .. Rounds : bounds[r] = DMul(bounds[r - 1], MaxC2(cfg.sbox))

\* ---------------------------------------------------------------------
\* the calls of branch_bound_fill that branch_bound_start has made so far in
\* the search of the current depth
CallsMade == SubSeq(StartSeq(cfg), 1, pinIdx - 1)

\* C27: for every depth, branch_bound_start calls branch_bound_fill exactly
\* once for each non-zero pin with at most Weight non-zero nibbles, and never
\* for pin = 0 or for a pin with more than Weight non-zero nibbles: whenever
\* a call has returned, its pin is non-zero, has at most Weight non-zero
\* nibbles and was not passed by an earlier call of the same depth, and when
\* branch_bound_start returns every such pin was passed by some call
C27_StartCalls ==
    (pc = "start" /\ rounds >= 1 /\ stack = << >>) =>
        /\ pinIdx >= 2 =>
              LET last == CallsMade[pinIdx - 1]
              IN  /\ last # {}
                  /\ nibble_weight(last) <= cfg.weight
                  /\ \A j \in 1 .. (pinIdx - 2) : CallsMade[j] # last
        /\ pinIdx > Len(StartSeq(cfg)) =>
              \A pin \in AllMasks :
                  (pin # {} /\ nibble_weight(pin) <= cfg.weight) =>
                      \E i \in 1 .. Len(CallsMade) : CallsMade[i] = pin

\* ---------------------------------------------------------------------
\* branch_bound_fill stands at a record of the slot TopBox, and at its leaf
AtRecord ==
    /\ stack # << >> /\ TopBox < Sboxes
    /\ Top.weight < cfg.weight /\ Top.k < Len(TopList)

AtLeaf == stack # << >> /\ TopBox = Sboxes /\ Top.r + 1 = rounds

\* C28: a record is skipped (no recursive call is made for it) if and only if
\* new_elp * bounds[rounds-(r+1)] <= bounds[rounds], new_elp = elp * corr;
\* at a leaf, bounds[rounds] becomes elp and trace[0..rounds] is copied into
\* trail if and only if elp > bounds[rounds], and otherwise bounds and trail
\* are unchanged
C28_PruneAndLeaf ==
    [][/\ AtRecord =>
            LET record  == TopList[Top.k + 1]
                new_elp == DMul(Top.elp, record.corr)
                skip    == ~ DLt(bounds[rounds], DMul(new_elp, bounds[rounds - (Top.r + 1)]))
            IN  /\ skip <=> Len(stack') = Len(stack)
                /\ ~ skip <=> (/\ Len(stack') = Len(stack) + 1
                               /\ stack'[Len(stack')].elp = new_elp
                               /\ stack'[Len(stack')].r = Top.r)
                /\ stack'[Len(stack)].k = Top.k + 1
                /\ bounds' = bounds /\ trail' = trail
       /\ AtLeaf =>
            IF DLt(bounds[rounds], Top.elp)
            THEN /\ bounds' = [bounds EXCEPT ![rounds] = Top.elp]
                 /\ cfg.variant = "faster" =>
                       /\ trace'[rounds] = Top.pout
                       /\ \A i \in 0 .. Rounds :
                             trail'[i] = IF i <= rounds THEN trace'[i] ELSE trail[i]
            ELSE bounds' = bounds /\ trail' = trail]_vars

\* a leaf of the depth 2 has replaced the seed and the trail, and the call
\* below it has gone through several records of its slot
C28_Witness ==
    /\ cfg.variant = "faster" /\ rounds = 2 /\ pc = "start"
    /\ stack # << >> /\ Top.r = 1 /\ Top.k >= 2
    /\ DLt(Seed(bounds[1]), bounds[2])
    /\ trail[2] # {} /\ trail[2] = trace[2]

\* ---------------------------------------------------------------------
\* C29: branch_bound_search runs the depths 1, 2, ..., R in increasing order;
\* when the search of a depth starts, bounds[rounds] = bounds[rounds-1] * 2^-8;
\* and a step of the search of depth `rounds` writes no bounds[k] other than
\* bounds[rounds], so the bounds[k], k < rounds, the bound check reads are
\* never written again
C29_DepthsInOrder ==
    [][/\ rounds' \in {rounds, rounds + 1}
       /\ rounds' = rounds + 1 =>
             /\ pc = "search" /\ pc' = "start" /\ pinIdx' = 1 /\ stack' = << >>
             /\ rounds' \in 1 .. Rounds
             /\ bounds'[rounds'] = Norm(bounds'[rounds' - 1][1], bounds'[rounds' - 1][2] + 8)
       /\ \A k \in 0 .. Rounds : k # rounds' => bounds'[k] = bounds[k]
       /\ pc' = "done" => rounds' = Rounds]_vars

\* in the search of depth 3 a leaf has raised bounds[3] above its seed, while
\* bounds[1] and bounds[2] differ from their seeds as well
C29_Witness ==
    /\ pc = "start" /\ rounds = 3 /\ stack # << >>
    /\ \A k \in 1 .. 3 : DLt(DMul(bounds[k - 1], <<1, 8>>), bounds[k])
    /\ bounds[4] = Zero

\* ---------------------------------------------------------------------
\* branch_bound_fill has walked every slot of a round that is not the last
AtBoundary == stack # << >> /\ TopBox = Sboxes /\ Top.r + 1 < rounds

\* the calls of the round of the innermost call that stand in the loop over
\* the records of their slot, and the OR of the outputs of the records they
\* chose, each shifted into its slot
RoundFrames == {i \in 1 .. (Len(stack) - 1) : stack[i].r = Top.r}

ChosenOutputs ==
    UNION {Shl(Bits(forward_approx(cfg.sbox)[ValIn(stack[i].pin, stack[i].box)][stack[i].k].output),
               stack[i].box * CIPHER_SBOX_SIZE) : i \in RoundFrames}

ActivatedIn(r) == Cardinality({i \in 1 .. (Len(stack) - 1) : stack[i].r = r})

\* the S-boxes activated along the whole trail
ActivatedInTrail == Len(stack) - 1

\* C31 as stated: for every trail that reaches a leaf, the number of S-boxes
\* activated along the whole trail, summed over its rounds, is at most Weight
C31_Original == AtLeaf => ActivatedInTrail <= cfg.weight

\* C31: for every trail that reaches a leaf, the number of S-boxes activated
\* in each single round is at least 1 and at most Weight, the counter weight
\* of the call at the leaf is the number activated in the last round, and the
\* number activated along the whole trail is at most rounds * Weight
C31_PerRoundCap ==
    AtLeaf =>
        /\ \A r \in 0 .. (rounds - 1) : ActivatedIn(r) \in 1 .. cfg.weight
        /\ Top.weight = ActivatedIn(rounds - 1)
        /\ ActivatedInTrail <= rounds * cfg.weight

\* a trail of three rounds reaches the leaf with four activated S-boxes
\* under Weight = 2, two of them in one round
C31_Witness ==
    /\ AtLeaf /\ rounds = 3 /\ cfg.weight = 2
    /\ ActivatedInTrail = 4
    /\ \E r \in 0 .. 2 : ActivatedIn(r) = 2

\* ------------------------------------------------------------------------
\* The debug build of the mask-set engine (PRESENT/mask-search.cpp)
\* ------------------------------------------------------------------------
\* back_propergate: whether a leaf of the recursion finds pout in pre_masks,
\* which is where it sets DEBUG_FOUND_BACKPROP
RECURSIVE BackpropFound(_, _, _, _, _)
BackpropFound(name, pre_masks, pin, pout, n) ==
    LET box == NextActive(pin, n)
        row == backward_approx(name)[ValIn(pin, box)]
    IN  IF box < Sboxes
        THEN \E k \in 1 .. Len(row) :
                BackpropFound(name, pre_masks, pin,
                              pout \cup Shl(Bits(row[k].output), box * CIPHER_SBOX_SIZE),
                              box + 1)
        ELSE pout \in DOMAIN pre_masks

\* main of the debug build up to the first round
DBGInit == MSInit /\ mcfg.variant = "present"

\* fill at a leaf: the membership test, then DEBUG_FOUND_BACKPROP = false
DebugCheck(t) ==
    /\ mpc = "tasks"
    /\ tasks[t].i <= Len(Leaves(t)) /\ tasks[t].phase = "check"
    /\ IF Pout(t) \in members
       THEN /\ tasks' = Advance(t)
            /\ UNCHANGED DEBUG_FOUND_BACKPROP
       ELSE /\ tasks' = [tasks EXCEPT ![t].phase = "back"]
            /\ DEBUG_FOUND_BACKPROP' = FALSE
    /\ UNCHANGED <<mcfg, mpc, round, masks, members, fitness, out, discarded>>
    /\ UNCHANGED <<bbVars, enVars, hpcVars, latVars, rectVars, permVars>>

\* fill at a leaf: the call of back_propergate, which sets the flag at the
\* leaves that find their mask in pre_masks
DebugBackprop(t) ==
    /\ mpc = "tasks"
    /\ tasks[t].i <= Len(Leaves(t)) /\ tasks[t].phase = "back"
    /\ tasks' = [tasks EXCEPT ![t].phase = "assert",
                              ![t].elp = back_propergate(mcfg.sbox, MapOf(masks), Pout(t), {}, One, 0)]
    /\ DEBUG_FOUND_BACKPROP' =
          IF BackpropFound(mcfg.sbox, MapOf(masks), Pout(t), {}, 0)
          THEN TRUE ELSE DEBUG_FOUND_BACKPROP
    /\ UNCHANGED <<mcfg, mpc, round, masks, members, fitness, out, discarded>>
    /\ UNCHANGED <<bbVars, enVars, hpcVars, latVars, rectVars, permVars>>

\* fill at a leaf: assert(DEBUG_FOUND_BACKPROP), which ends the program when
\* it fails, and the test against TINY
DebugAssert(t) ==
    /\ mpc = "tasks"
    /\ tasks[t].i <= Len(Leaves(t)) /\ tasks[t].phase = "assert"
    /\ IF ~ DEBUG_FOUND_BACKPROP
       THEN /\ mpc' = "abort"
            /\ UNCHANGED tasks
       ELSE /\ tasks' = IF DLt(tasks[t].elp, TINY)
                        THEN Advance(t)
                        ELSE [tasks EXCEPT ![t].phase = "add"]
            /\ UNCHANGED mpc
    /\ UNCHANGED <<mcfg, round, masks, members, fitness, out, discarded>>
    /\ UNCHANGED DEBUG_FOUND_BACKPROP
    /\ UNCHANGED <<bbVars, enVars, hpcVars, latVars, rectVars, permVars>>

DBGNext ==
    \/ CollectRound
    \/ Finish
    \/ \E t \in 1 .. Len(tasks) : DebugCheck(t)
    \/ \E t \in 1 .. Len(tasks) : DebugBackprop(t)
    \/ \E t \in 1 .. Len(tasks) : DebugAssert(t)
    \/ \E t \in 1 .. Len(tasks) : TaskAdd(t)
    \/ TaskWait
    \/ Drain
    \/ DrainEnd

\* a run of the debug build of the mask-set engine
SpecDBG == DBGInit /\ [][DBGNext]_vars

\* C32 as stated: whenever a task of the round stands at
\* assert(DEBUG_FOUND_BACKPROP) the flag is set, so the assertion never fails,
\* whatever the order the steps of the tasks are taken in
C32_AssertHolds ==
    /\ mpc # "abort"
    /\ mpc = "tasks" =>
          \A t \in 1 .. Len(tasks) :
              tasks[t].i <= Len(Leaves(t)) /\ tasks[t].phase = "assert"
                  => DEBUG_FOUND_BACKPROP

\* the call of back_propergate of every task that stands at the assertion
\* did find an entry of the previous frontier
C32_PathExists ==
    mpc \in {"tasks", "abort"} =>
        \A t \in 1 .. Len(tasks) :
            tasks[t].i <= Len(Leaves(t)) /\ tasks[t].phase = "assert"
                => BackpropFound(mcfg.sbox, MapOf(masks), Pout(t), {}, 0)

\* the assertion has failed in a task whose own back-propagation found an
\* entry
C32_Failed ==
    /\ mpc = "abort"
    /\ \E t \in 1 .. Len(tasks) :
          /\ tasks[t].phase = "assert"
          /\ ~ DEBUG_FOUND_BACKPROP
          /\ BackpropFound(mcfg.sbox, MapOf(masks), Pout(t), {}, 0)

\* ------------------------------------------------------------------------
\* The assertion at the leaf of fill (GIFT/enumerate)
\* ------------------------------------------------------------------------
\* fill of iterate.cpp for the next entry of pool_cur in a build that compiles
\* the assertion in
FilledDebug ==
    fill([pool |-> pool_new, aborted |-> FALSE], [ecfg EXCEPT !.ndebug = FALSE],
         pool_cur[pcs + 1][2], pool_cur[pcs + 1][1], {}, ecfg.hw, 0, 0)

\* fill of bin_iter_cnt.cpp up to its leaf, where the weight of a record is
\* approx.weight = weight(approx.output): the values of pout it reaches the
\* leaf with
RECURSIVE FillLeavesCnt(_, _, _, _, _, _)
FillLeavesCnt(name, pin, pout, max_weight, pat_weight, n) ==
    LET box == NextActive(pin, n)
        row == forward_approx(name)[ValIn(pin, box)]
    IN  IF box = Sboxes THEN {pout}
        ELSE IF pat_weight = max_weight THEN {}
        ELSE UNION {FillLeavesCnt(name, pin,
                                  pout \cup Shl(Bits(row[k].output), box * CIPHER_SBOX_SIZE),
                                  max_weight, pat_weight + weight(Bits(row[k].output)), box + 1) :
                    k \in {j \in 1 .. Len(row) :
                              pat_weight + weight(Bits(row[j].output)) <= max_weight}}

\* C33 as stated: no run of the direct accumulation stops at the assertion
\* weight(pout) <= max_weight, and for every entry of the frontier that fill
\* is called with, the assertion holds at every leaf the call reaches, weight
\* being the number of set bits of the unpermuted output mask
C33_AssertHolds ==
    /\ epc # "abort"
    /\ (epc = "fill" /\ pcs < Len(pool_cur)) => ~ FilledDebug.aborted

\* in fill of bin_iter_cnt.cpp, which counts approx.weight for each record,
\* every leaf has at most max_weight set bits
C33_CountedWeight ==
    (epc = "fill" /\ pcs < Len(pool_cur)) =>
        \A pout \in FillLeavesCnt(ecfg.sbox, pool_cur[pcs + 1][1], {}, ecfg.hw, 0, 0) :
            weight(pout) <= ecfg.hw

\* the run has stopped at the assertion in a call of fill for a mask with no
\* more than max_weight active slots
C33_Failed ==
    /\ epc = "abort" /\ ~ ecfg.ndebug
    /\ nibble_weight(pool_cur[pcs + 1][1]) <= ecfg.hw
    /\ FilledDebug.aborted

\* ------------------------------------------------------------------------
\* The bit permutation of GIFT at full width (GIFT/branch-bound-faster/gift.cpp)
\* ------------------------------------------------------------------------
\* CIPHER_SIZE of gift.cpp
GIFT_SIZE == 64

\* the hexadecimal digits of a uint64_t literal
HEX_DIGITS == 16

\* uint64_t const PERM[CIPHER_SIZE]: the literals of the table, in order, each
\* by its hexadecimal digits, the most significant first
PERM_LITERALS == <<
    <<0, 0, 0, 0, 0, 0, 0, 0, 0, 0, 0, 0, 0, 0, 0, 1>>,
    <<0, 0, 0, 0, 0, 0, 0, 0, 0, 0, 0, 2, 0, 0, 0, 0>>,
    <<0, 0, 0, 0, 0, 0, 0, 4, 0, 0, 0, 0, 0, 0, 0, 0>>,
    <<0, 0, 0, 8, 0, 0, 0, 0, 0, 0, 0, 0, 0, 0, 0, 0>>,
    <<0, 0, 0, 1, 0, 0, 0, 0, 0, 0, 0, 0, 0, 0, 0, 0>>,
    <<0, 0, 0, 0, 0, 0, 0, 0, 0, 0, 0, 0, 0, 0, 0, 2>>,
    <<0, 0, 0, 0, 0, 0, 0, 0, 0, 0, 0, 4, 0, 0, 0, 0>>,
    <<0, 0, 0, 0, 0, 0, 0, 8, 0, 0, 0, 0, 0, 0, 0, 0>>,
    <<0, 0, 0, 0, 0, 0, 0, 1, 0, 0, 0, 0, 0, 0, 0, 0>>,
    <<0, 0, 0, 2, 0, 0, 0, 0, 0, 0, 0, 0, 0, 0, 0, 0>>,
    <<0, 0, 0, 0, 0, 0, 0, 0, 0, 0, 0, 0, 0, 0, 0, 4>>,
    <<0, 0, 0, 0, 0, 0, 0, 0, 0, 0, 0, 8, 0, 0, 0, 0>>,
    <<0, 0, 0, 0, 0, 0, 0, 0, 0, 0, 0, 1, 0, 0, 0, 0>>,
    <<0, 0, 0, 0, 0, 0, 0, 2, 0, 0, 0, 0, 0, 0, 0, 0>>,
    <<0, 0, 0, 4, 0, 0, 0, 0, 0, 0, 0, 0, 0, 0, 0, 0>>,
    <<0, 0, 0, 0, 0, 0, 0, 0, 0, 0, 0, 0, 0, 0, 0, 8>>,
    <<0, 0, 0, 0, 0, 0, 0, 0, 0, 0, 0, 0, 0, 0, 1, 0>>,
    <<0, 0, 0, 0, 0, 0, 0, 0, 0, 0, 2, 0, 0, 0, 0, 0>>,
    <<0, 0, 0, 0, 0, 0, 4, 0, 0, 0, 0, 0, 0, 0, 0, 0>>,
    <<0, 0, 8, 0, 0, 0, 0, 0, 0, 0, 0, 0, 0, 0, 0, 0>>,
    <<0, 0, 1, 0, 0, 0, 0, 0, 0, 0, 0, 0, 0, 0, 0, 0>>,
    <<0, 0, 0, 0, 0, 0, 0, 0, 0, 0, 0, 0, 0, 0, 2, 0>>,
    <<0, 0, 0, 0, 0, 0, 0, 0, 0, 0, 4, 0, 0, 0, 0, 0>>,
    <<0, 0, 0, 0, 0, 0, 8, 0, 0, 0, 0, 0, 0, 0, 0, 0>>,
    <<0, 0, 0, 0, 0, 0, 1, 0, 0, 0, 0, 0, 0, 0, 0, 0>>,
    <<0, 0, 2, 0, 0, 0, 0, 0, 0, 0, 0, 0, 0, 0, 0, 0>>,
    <<0, 0, 0, 0, 0, 0, 0, 0, 0, 0, 0, 0, 0, 0, 4, 0>>,
    <<0, 0, 0, 0, 0, 0, 0, 0, 0, 0, 8, 0, 0, 0, 0, 0>>,
    <<0, 0, 0, 0, 0, 0, 0, 0, 0, 0, 1, 0, 0, 0, 0, 0>>,
    <<0, 0, 0, 0, 0, 0, 2, 0, 0, 0, 0, 0, 0, 0, 0, 0>>,
    <<0, 0, 4, 0, 0, 0, 0, 0, 0, 0, 0, 0, 0, 0, 0, 0>>,
    <<0, 0, 0, 0, 0, 0, 0, 0, 0, 0, 0, 0, 0, 0, 8, 0>>,
    <<0, 0, 0, 0, 0, 0, 0, 0, 0, 0, 0, 0, 0, 1, 0, 0>>,
    <<0, 0, 0, 0, 0, 0, 0, 0, 0, 2, 0, 0, 0, 0, 0, 0>>,
    <<0, 0, 0, 0, 0, 4, 0, 0, 0, 0, 0, 0, 0, 0, 0, 0>>,
    <<0, 8, 0, 0, 0, 0, 0, 0, 0, 0, 0, 0, 0, 0, 0, 0>>,
    <<0, 1, 0, 0, 0, 0, 0, 0, 0, 0, 0, 0, 0, 0, 0, 0>>,
    <<0, 0, 0, 0, 0, 0, 0, 0, 0, 0, 0, 0, 0, 2, 0, 0>>,
    <<0, 0, 0, 0, 0, 0, 0, 0, 0, 4, 0, 0, 0, 0, 0, 0>>,
    <<0, 0, 0, 0, 0, 8, 0, 0, 0, 0, 0, 0, 0, 0, 0, 0>>,
    <<0, 0, 0, 0, 0, 1, 0, 0, 0, 0, 0, 0, 0, 0, 0, 0>>,
    <<0, 2, 0, 0, 0, 0, 0, 0, 0, 0, 0, 0, 0, 0, 0, 0>>,
    <<0, 0, 0, 0, 0, 0, 0, 0, 0, 0, 0, 0, 0, 4, 0, 0>>,
    <<0, 0, 0, 0, 0, 0, 0, 0, 0, 8, 0, 0, 0, 0, 0, 0>>,
    <<0, 0, 0, 0, 0, 0, 0, 0, 0, 1, 0, 0, 0, 0, 0, 0>>,
    <<0, 0, 0, 0, 0, 2, 0, 0, 0, 0, 0, 0, 0, 0, 0, 0>>,
    <<0, 4, 0, 0, 0, 0, 0, 0, 0, 0, 0, 0, 0, 0, 0, 0>>,
    <<0, 0, 0, 0, 0, 0, 0, 0, 0, 0, 0, 0, 0, 8, 0, 0>>,
    <<0, 0, 0, 0, 0, 0, 0, 0, 0, 0, 0, 0, 1, 0, 0, 0>>,
    <<0, 0, 0, 0, 0, 0, 0, 0, 2, 0, 0, 0, 0, 0, 0, 0>>,
    <<0, 0, 0, 0, 4, 0, 0, 0, 0, 0, 0, 0, 0, 0, 0, 0>>,
    <<8, 0, 0, 0, 0, 0, 0, 0, 0, 0, 0, 0, 0, 0, 0, 0>>,
    <<1, 0, 0, 0, 0, 0, 0, 0, 0, 0, 0, 0, 0, 0, 0, 0>>,
    <<0, 0, 0, 0, 0, 0, 0, 0, 0, 0, 0, 0, 2, 0, 0, 0>>,
    <<0, 0, 0, 0, 0, 0, 0, 0, 4, 0, 0, 0, 0, 0, 0, 0>>,
    <<0, 0, 0, 0, 8, 0, 0, 0, 0, 0, 0, 0, 0, 0, 0, 0>>,
    <<0, 0, 0, 0, 1, 0, 0, 0, 0, 0, 0, 0, 0, 0, 0, 0>>,
    <<2, 0, 0, 0, 0, 0, 0, 0, 0, 0, 0, 0, 0, 0, 0, 0>>,
    <<0, 0, 0, 0, 0, 0, 0, 0, 0, 0, 0, 0, 4, 0, 0, 0>>,
    <<0, 0, 0, 0, 0, 0, 0, 0, 8, 0, 0, 0, 0, 0, 0, 0>>,
    <<0, 0, 0, 0, 0, 0, 0, 0, 1, 0, 0, 0, 0, 0, 0, 0>>,
    <<0, 0, 0, 0, 2, 0, 0, 0, 0, 0, 0, 0, 0, 0, 0, 0>>,
    <<4, 0, 0, 0, 0, 0, 0, 0, 0, 0, 0, 0, 0, 0, 0, 0>>,
    <<0, 0, 0, 0, 0, 0, 0, 0, 0, 0, 0, 0, 8, 0, 0, 0>> >>

\* the value of a literal: the positions of its set bits
LiteralBits(digits) ==
    UNION {Shl(Bits(digits[j]), CIPHER_SBOX_SIZE * (HEX_DIGITS - j)) : j \in 1 .. HEX_DIGITS}

\* a table whose second entry repeats the first
PERM64_repeated ==
    Fix([i \in 0 .. (GIFT_SIZE - 1) |-> LiteralBits(PERM_LITERALS[IF i = 1 THEN 1 ELSE i + 1])])

\* PERM[i], i = 0 .. 63
PERM64 ==
    Fix([i \in 0 .. (GIFT_SIZE - 1) |-> LiteralBits(PERM_LITERALS[i + 1])])

\* the loop of permute: out |= x & 1 ? PERM[i] : 0; x >>= 1 (acc is out)
RECURSIVE permute_loop(_, _, _)
permute_loop(x, acc, i) ==
    IF i = GIFT_SIZE THEN acc
    ELSE permute_loop(Shr(x, 1), acc \cup (IF 0 \in x THEN PERM64[i] ELSE {}), i + 1)

\* uint64_t permute(uint64_t x)
permute64(x) == permute_loop(x, {}, 0)

\* the most bits set in the first mask that is tried
PermMaxBits == 2

\* the most bits set in the second mask that is tried
PermMaxBitsOther == 1

\* the two masks; the other programs are not part of the run
PERMInit ==
    /\ gx \in FewBits(PermMaxBits)
    /\ gy \in FewBits(PermMaxBitsOther)
    /\ gpc = "x"
    /\ gres = << >>
    /\ BBIdle
    /\ MSIdle
    /\ ENIdle
    /\ HPCIdle
    /\ LATIdle
    /\ RECTIdle
    /\ DBGIdle

\* permute(x)
PermuteX ==
    /\ gpc = "x"
    /\ gres' = <<permute64(gx)>>
    /\ gpc' = "y"
    /\ UNCHANGED <<gx, gy>>
    /\ UNCHANGED <<bbVars, msVars, enVars, hpcVars, latVars, rectVars, dbgVars>>

\* permute(y)
PermuteY ==
    /\ gpc = "y"
    /\ gres' = Append(gres, permute64(gy))
    /\ gpc' = "or"
    /\ UNCHANGED <<gx, gy>>
    /\ UNCHANGED <<bbVars, msVars, enVars, hpcVars, latVars, rectVars, dbgVars>>

\* permute(x | y)
PermuteOr ==
    /\ gpc = "or"
    /\ gres' = Append(gres, permute64(gx \cup gy))
    /\ gpc' = "done"
    /\ UNCHANGED <<gx, gy>>
    /\ UNCHANGED <<bbVars, msVars, enVars, hpcVars, latVars, rectVars, dbgVars>>

PERMNext ==
    \/ PermuteX
    \/ PermuteY
    \/ PermuteOr

\* permute applied to two masks and to their OR
SpecPERM == PERMInit /\ [][PERMNext]_vars

\* C34: the 64 entries of PERM are 64 distinct masks of one bit each within
\* the 64 bits; permute(0) = 0; permute(x | y) = permute(x) | permute(y);
\* permute(x) = permute(y) only for x = y; and permute(x) has as many bits
\* set as x
C34_PermuteBijection ==
    /\ (gpc = "x" /\ gx = {} /\ gy = {}) =>
          /\ DOMAIN PERM64 = 0 .. 63
          /\ \A i \in DOMAIN PERM64 :
                /\ Cardinality(PERM64[i]) = 1
                /\ PERM64[i] \subseteq 0 .. 63
                /\ \A j \in DOMAIN PERM64 : PERM64[i] = PERM64[j] => i = j
    /\ gpc \in {"y", "or", "done"} =>
          /\ gx = {} => gres[1] = {}
          /\ weight(gres[1]) = weight(gx)
    /\ gpc = "done" =>
          /\ gres[3] = gres[1] \cup gres[2]
          /\ gres[1] = gres[2] => gx = gy
          /\ weight(gres[2]) = weight(gy)
          /\ weight(gres[3]) = weight(gx \cup gy)

\* permute has been applied to a mask of two bits, to a bit outside it and to
\* their OR, and has moved the bits
C34_Witness ==
    /\ gpc = "done"
    /\ weight(gx) = 2 /\ weight(gy) = 1 /\ gx \cap gy = {}
    /\ weight(gres[3]) = 3
    /\ gres[1] \cap gx = {} /\ gres[2] # gy

\* ------------------------------------------------------------------------
\* The frontier that is broadcast (PRESENT-MPI/main.cpp)
\* ------------------------------------------------------------------------
\* the first flat_size entries of flat_buff of rank k
FlatOf(k) == SubSeq(node[k].flat_buff, 1, node[k].flat_size)

\* C35: whenever the ranks stand at the barrier before the broadcasts, the
\* flattened frontier of the root holds no mask twice and at most Limit
\* entries, and on every rank that has rebuilt masks from the broadcast,
\* masks has exactly flat_size entries and at most Limit, so that no rank
\* stops at the two assertions
C35_FrontierDistinct ==
    /\ (\A k \in Ranks : node[k].pc = "barrier") =>
          /\ Cardinality(Keys(FlatOf(HPC_ROOT))) = node[HPC_ROOT].flat_size
          /\ node[HPC_ROOT].flat_size <= hcfg.limit
    /\ \A k \in Ranks :
          node[k].pc = "work" =>
              /\ Len(node[k].masks) = node[k].flat_size
              /\ Len(node[k].masks) <= hcfg.limit
              /\ Keys(node[k].masks) = Keys(FlatOf(k))
    /\ \A k \in Ranks :
          node[k].pc = "abort" =>
              /\ Len(node[k].masks) = node[k].flat_size
              /\ Len(node[k].masks) <= hcfg.limit

\* a rank other than the root has rebuilt masks of at least two entries from
\* the broadcast of the second round, after the root merged the array of a
\* child together with stale entries of its buffer
C35_Witness ==
    /\ \E k \in Ranks \ {HPC_ROOT} :
          /\ node[k].pc = "work" /\ node[k].round_num = 2
          /\ node[k].flat_size >= 2
          /\ Len(node[k].masks) = node[k].flat_size
    /\ lastMerge # << >>
    /\ lastMerge.rank = HPC_ROOT
    /\ Len(lastMerge.offered) > Len(lastMerge.sent)

=============================================================================
